---------------------------- MODULE Spec2Model ----------------------------
(***************************************************************************)
(* A model of the chippie CHIP-8 emulator core (crates/chippie-emulator):  *)
(* the Cpu struct, Instruction::new (decode), Cpu::execute, Cpu::cycle,    *)
(* Cpu::new and Cpu::set_key_state, with the Ram, Stack and Registers      *)
(* containers they use.                                                    *)
(*                                                                         *)
(* A Rust panic is modelled by the field/variable `panic`: "" while the    *)
(* process is alive, otherwise the kind of panic that ended it.  Nothing   *)
(* in the repository catches a panic, so no operation is enabled after.    *)
(* Integer overflow of a u8/u16 panics in a build with overflow checks     *)
(* (debug profile) and wraps in one without (release profile); the build   *)
(* is the variable overflow_checks, chosen at Init and never changed.      *)
(***************************************************************************)
EXTENDS Integers, Sequences, FiniteSets, TLC

\* ------------------------------------------------------------- constants
DISPLAY_WIDTH == 64
DISPLAY_HEIGHT == 32
RAM_SIZE == 4096
ROM_START_ADDRESS == 512
NUM_REGISTERS == 16
NUM_KEYS == 16
STACK_SIZE == 16
U8_MOD == 256
U16_MOD == 65536

\* chippie-gui constants.rs: cycles the cpu advances for every frame
CYCLES_PER_FRAME == 5

\* ---------------------------------------------------------------- bounds
\* cycle() calls per behaviour
MaxCycles == 6
\* cycle() calls per behaviour of the programs that fill the call stack
DeepCycles == 18
\* cycles of a run that nests STACK_SIZE calls and returns from them all
NestCycles == 34
\* messages the GUI application handles per behaviour
MaxMessages == 4
\* set_key_state() calls per behaviour
MaxKeyEvents == 1
\* set_key_state() calls and cycle() calls per behaviour of the programs
\* whose caller presses and releases keys
MaxKeyWrites == 2
KeyboardCycles == 3
\* the host presses keys 0..MaxKey
MaxKey == 1
\* byte operands are sampled ByteSpread deep around 0, 128 and 255
ByteSpread == 1

\* --------------------------------------------------------------- u8 bits
RECURSIVE BitAnd(_, _, _)
BitAnd(a, b, bits) ==
    IF bits = 0 THEN 0
    ELSE (IF a % 2 = 1 /\ b % 2 = 1 THEN 1 ELSE 0)
         + 2 * BitAnd(a \div 2, b \div 2, bits - 1)

RECURSIVE BitOr(_, _, _)
BitOr(a, b, bits) ==
    IF bits = 0 THEN 0
    ELSE (IF a % 2 = 1 \/ b % 2 = 1 THEN 1 ELSE 0)
         + 2 * BitOr(a \div 2, b \div 2, bits - 1)

RECURSIVE BitXor(_, _, _)
BitXor(a, b, bits) ==
    IF bits = 0 THEN 0
    ELSE (IF a % 2 # b % 2 THEN 1 ELSE 0)
         + 2 * BitXor(a \div 2, b \div 2, bits - 1)

RECURSIVE Pow2(_)
Pow2(n) == IF n = 0 THEN 1 ELSE 2 * Pow2(n - 1)

\* x >> n on an unsigned integer
Shr(x, n) == x \div Pow2(n)

\* ------------------------------------------------- Instruction (decode)
\* mutant: the mask of get_nibble drops the top bit of the nibble
get_nibble_three_bits(opcode, nth) == Shr(opcode, 12 - 4 * nth) % 8

\* ((opcode >> (12 - 4 * nth)) & 0xf) as u8
get_nibble(opcode, nth) == Shr(opcode, 12 - 4 * nth) % 16
\* (opcode & 0xff) as u8
last_byte(opcode) == opcode % 256
\* opcode & 0xfff
oxxx(opcode) == opcode % 4096

Ins(name) == [op |-> name, x |-> 0, y |-> 0, n |-> 0, kk |-> 0, nnn |-> 0]
InsNNN(name, opcode) == [Ins(name) EXCEPT !.nnn = oxxx(opcode)]
InsXKK(name, opcode) ==
    [Ins(name) EXCEPT !.x = get_nibble(opcode, 1), !.kk = last_byte(opcode)]
InsXY(name, opcode) ==
    [Ins(name) EXCEPT !.x = get_nibble(opcode, 1), !.y = get_nibble(opcode, 2)]
InsX(name, opcode) == [Ins(name) EXCEPT !.x = get_nibble(opcode, 1)]
InsXYN(name, opcode) ==
    [Ins(name) EXCEPT !.x = get_nibble(opcode, 1), !.y = get_nibble(opcode, 2),
                      !.n = get_nibble(opcode, 3)]
\* the panic!() arms of Instruction::new
DecodePanic == Ins("panic")

Decode0(opcode) ==
    CASE last_byte(opcode) = 224 -> Ins("ClearScreen")
      [] last_byte(opcode) = 238 -> Ins("ReturnFromSubroutine")
      [] OTHER -> Ins("Noop")

Decode8(opcode) ==
    CASE get_nibble(opcode, 3) = 0 -> InsXY("LoadRegisterXIntoY", opcode)
      [] get_nibble(opcode, 3) = 1 -> InsXY("LoadXOrYinX", opcode)
      [] get_nibble(opcode, 3) = 2 -> InsXY("LoadXAndYInX", opcode)
      [] get_nibble(opcode, 3) = 3 -> InsXY("LoadXXorYInX", opcode)
      [] get_nibble(opcode, 3) = 4 -> InsXY("AddYToX", opcode)
      [] get_nibble(opcode, 3) = 5 -> InsXY("SubYFromX", opcode)
      [] get_nibble(opcode, 3) = 6 -> InsX("ShiftXRight1", opcode)
      [] get_nibble(opcode, 3) = 7 -> InsXY("SubXFromY", opcode)
      [] get_nibble(opcode, 3) = 14 -> InsX("ShiftXLeft1", opcode)
      [] OTHER -> DecodePanic

DecodeE(opcode) ==
    CASE last_byte(opcode) = 161 -> InsX("SkipIfVxNotPressed", opcode)
      [] last_byte(opcode) = 158 -> InsX("SkipIfVxPressed", opcode)
      [] OTHER -> DecodePanic

DecodeF(opcode) ==
    CASE last_byte(opcode) = 10 -> InsX("WaitForKeyPressed", opcode)
      [] last_byte(opcode) = 7 -> InsX("SetXToDelayTimer", opcode)
      [] last_byte(opcode) = 21 -> InsX("SetDelayTimerToX", opcode)
      [] last_byte(opcode) = 24 -> InsX("SetSoundTimerToX", opcode)
      [] last_byte(opcode) = 30 -> InsX("AddXtoI", opcode)
      [] last_byte(opcode) = 41 -> InsX("SetIToSpriteX", opcode)
      [] last_byte(opcode) = 51 -> InsX("LoadBCDOfX", opcode)
      [] last_byte(opcode) = 85 -> InsX("Write0ThroughX", opcode)
      [] last_byte(opcode) = 101 -> InsX("Load0ThroughX", opcode)
      [] OTHER -> DecodePanic

\* Instruction::new(opcode)
InstructionNew(opcode) ==
    CASE get_nibble(opcode, 0) = 0 -> Decode0(opcode)
      [] get_nibble(opcode, 0) = 1 -> InsNNN("Jump", opcode)
      [] get_nibble(opcode, 0) = 2 -> InsNNN("CallSubroutineAtNNN", opcode)
      [] get_nibble(opcode, 0) = 3 -> InsXKK("SkipNextInstructionIfXIsKK", opcode)
      [] get_nibble(opcode, 0) = 4 -> InsXKK("SkipNextInstructionIfXIsNotKK", opcode)
      [] get_nibble(opcode, 0) = 5 -> InsXY("SkipNextInstructionIfXIsY", opcode)
      [] get_nibble(opcode, 0) = 6 -> InsXKK("LoadRegisterX", opcode)
      [] get_nibble(opcode, 0) = 7 -> InsXKK("AddToRegisterX", opcode)
      [] get_nibble(opcode, 0) = 8 -> Decode8(opcode)
      [] get_nibble(opcode, 0) = 9 -> InsXY("SkipNextInstructionIfXIsNotY", opcode)
      [] get_nibble(opcode, 0) = 10 -> InsNNN("SetIndexRegister", opcode)
      [] get_nibble(opcode, 0) = 11 -> InsNNN("JumpToAddressPlusV0", opcode)
      [] get_nibble(opcode, 0) = 12 -> InsXKK("SetXToRandom", opcode)
      [] get_nibble(opcode, 0) = 13 -> InsXYN("Display", opcode)
      [] get_nibble(opcode, 0) = 14 -> DecodeE(opcode)
      [] get_nibble(opcode, 0) = 15 -> DecodeF(opcode)
      [] OTHER -> DecodePanic

\* ------------------------------------------------------------------ state
VARIABLES
    program_counter,  \* Cpu.program_counter: u16
    registers,        \* Cpu.registers: Registers {register, vindex, delay_timer, sound_timer}
    memory,           \* Cpu.memory: Ram.bytes, [u8; RAM_SIZE]
    stack,            \* Cpu.stack: Stack.values, [u16; 16]
    stackpointer,     \* Cpu.stackpointer: u8
    keyboard,         \* Cpu.keyboard: [bool; NUM_KEYS]
    framebuffer,      \* Cpu.framebuffer: [[bool; DISPLAY_WIDTH]; DISPLAY_HEIGHT]
    rng,              \* Cpu.rng: number of bytes drawn from the ChaCha8 stream
    panic,            \* "" while the process lives, else the panic that ended it
    overflow_checks,  \* the build: TRUE = overflow panics, FALSE = overflow wraps
    rom,              \* the bytes Cpu::new was given
    cycles,           \* number of cycle() calls made
    key_events,       \* number of set_key_state() calls made
    last,             \* the last cycle(): address fetched, opcode, what it returned,
                      \* and the stackpointer, registers, keyboard and
                      \* framebuffer it started from
    since_set,        \* per timer: value last set by an instruction, cycles since
    pending,          \* return addresses of the calls not yet returned from
    key_call,         \* the arguments of the last set_key_state() call
    app,              \* Application.initialized, Application.running
    message           \* number of messages update() has handled, and the last one

vars == <<program_counter, registers, memory, stack, stackpointer, keyboard,
          framebuffer, rng, panic, overflow_checks, rom, cycles, key_events, last,
          since_set, pending, key_call, app, message>>

\* the Cpu as one value, for the operators below
Self ==
    [program_counter |-> program_counter, registers |-> registers,
     memory |-> memory, stack |-> stack, stackpointer |-> stackpointer,
     keyboard |-> keyboard, framebuffer |-> framebuffer, rng |-> rng,
     panic |-> panic]

Panic(self, msg) == [self EXCEPT !.panic = msg]

\* arithmetic on a `width`-bit unsigned integer: the result leaves the type
Overflows(v, mod) == v < 0 \/ v >= mod
Wrap(v, mod) == v % mod

\* -------------------------------------------------------------- Registers
RegistersDefault ==
    [register |-> [r \in 0..(NUM_REGISTERS - 1) |-> 0],
     vindex |-> 0, delay_timer |-> 0, sound_timer |-> 0]

get_register(self, r) == self.registers.register[r]
set_register(self, r, value) == [self EXCEPT !.registers.register[r] = value]
get_index_register(self) == self.registers.vindex
set_index_register(self, value) == [self EXCEPT !.registers.vindex = value]
get_delay_timer(self) == self.registers.delay_timer
set_delay_timer(self, value) == [self EXCEPT !.registers.delay_timer = value]
set_sound_timer(self, value) == [self EXCEPT !.registers.sound_timer = value]

decrement_sound_timer(self) ==
    IF self.registers.sound_timer > 0
    THEN [self EXCEPT !.registers.sound_timer = @ - 1]
    ELSE self

\* mutant: the delay timer is decremented without the > 0 test (u8 wraps)
decrement_delay_timer_unguarded(self) ==
    [self EXCEPT !.registers.delay_timer = Wrap(@ - 1, U8_MOD)]

decrement_delay_timer(self) ==
    IF self.registers.delay_timer > 0
    THEN [self EXCEPT !.registers.delay_timer = @ - 1]
    ELSE self

\* -------------------------------------------------------------------- Ram
fontset ==
    <<240, 144, 144, 144, 240,  32,  96,  32,  32, 112,
      240,  16, 240, 128, 240, 240,  16, 240,  16, 240,
      144, 144, 240,  16,  16, 240, 128, 240,  16, 240,
      240, 128, 240, 144, 240, 240,  16,  32,  64,  64,
      240, 144, 240, 144, 240, 240, 144, 240,  16, 240,
      240, 144, 240, 144, 144, 224, 144, 224, 144, 224,
      240, 128, 128, 128, 240, 224, 144, 144, 144, 224,
      240, 128, 240, 128, 240, 240, 128, 240, 128, 128>>

\* Ram::with_fonts(): bytes[idx] = fontset[idx] below fontset.len(), else 0
with_fonts ==
    [idx \in 0..(RAM_SIZE - 1) |-> IF idx < Len(fontset) THEN fontset[idx + 1] ELSE 0]

\* bytes[index as usize] is a checked index
RamInBounds(index) == index >= 0 /\ index < RAM_SIZE

\* Ram::set(index, value)
RamSet(self, index, value) ==
    IF RamInBounds(index)
    THEN [self EXCEPT !.memory[index] = value]
    ELSE Panic(self, "ram index out of bounds")

\* Ram::get_opcode(index): (bytes[index] << 8) | bytes[index + 1]
RamGetOpcodeOk(index) == RamInBounds(index) /\ RamInBounds(index + 1)
RamGetOpcode(self, index) == self.memory[index] * 256 + self.memory[index + 1]

\* Ram::get_byte(index): bytes[index]
RamGetByteOk(index) == RamInBounds(index)
RamGetByte(self, index) == self.memory[index]

\* ------------------------------------------------------------------ Stack
StackDefault == [idx \in 0..(STACK_SIZE - 1) |-> 0]
StackInBounds(idx) == idx >= 0 /\ idx < STACK_SIZE
\* Stack::get(idx) is values[idx]; Stack::set(idx, value) is values[idx] = value
StackSet(self, idx, value) ==
    IF StackInBounds(idx)
    THEN [self EXCEPT !.stack[idx] = value]
    ELSE Panic(self, "stack index out of bounds")

\* -------------------------------------------------------------------- rng
\* The first bytes `rng.random::<u8>()` yields from ChaCha8Rng::seed_from_u64(2)
\* (the low byte of each successive 32-bit word of the key stream).
RngStream ==
    <<197, 201, 48, 201, 25, 67, 194, 48, 65, 128, 54, 118, 179, 90, 35, 229,
      224, 245, 130, 173, 168, 214, 67, 58, 250, 202, 53, 82, 178, 19, 45, 243>>
RngByte(drawn) == RngStream[drawn + 1]

\* ------------------------------------------------------- Cpu::execute arms
\* self.program_counter += 2 (u16)
SkipNext(self) ==
    IF Overflows(self.program_counter + 2, U16_MOD) /\ overflow_checks
    THEN Panic(self, "attempt to add with overflow")
    ELSE [self EXCEPT !.program_counter = Wrap(@ + 2, U16_MOD)]

\* mutant: the no-op switches off the top-left pixel
exec_Noop_touches_pixel(self) == [self EXCEPT !.framebuffer[0][0] = FALSE]

exec_Noop(self) == self

\* mutant: only the first framebuffer row is cleared
exec_ClearScreen_first_row(self) ==
    [self EXCEPT !.framebuffer[0] = [col \in 0..(DISPLAY_WIDTH - 1) |-> FALSE]]

exec_ClearScreen(self) ==
    [self EXCEPT !.framebuffer =
        [row \in 0..(DISPLAY_HEIGHT - 1) |-> [col \in 0..(DISPLAY_WIDTH - 1) |-> FALSE]]]

\* mutant: the return address is read before the stack pointer is decremented
exec_ReturnFromSubroutine_postdecrement(self) ==
    IF ~StackInBounds(self.stackpointer) \/ self.stackpointer = 0
    THEN Panic(self, "stack index out of bounds")
    ELSE [self EXCEPT !.program_counter = self.stack[self.stackpointer],
                      !.stackpointer = @ - 1]

\* mutant: the return goes to the address of the oldest call
exec_ReturnFromSubroutine_oldest(self) ==
    IF self.stackpointer = 0 THEN Panic(self, "attempt to subtract with overflow")
    ELSE [self EXCEPT !.stackpointer = @ - 1, !.program_counter = self.stack[0]]

\* self.stackpointer -= 1; self.program_counter = self.stack.get(self.stackpointer)
exec_ReturnFromSubroutine(self) ==
    IF Overflows(self.stackpointer - 1, U8_MOD) /\ overflow_checks
    THEN Panic(self, "attempt to subtract with overflow")
    ELSE LET sp == Wrap(self.stackpointer - 1, U8_MOD)
             s1 == [self EXCEPT !.stackpointer = sp]
         IN  IF StackInBounds(sp)
             THEN [s1 EXCEPT !.program_counter = self.stack[sp]]
             ELSE Panic(s1, "stack index out of bounds")

exec_Jump(self, nnn) == [self EXCEPT !.program_counter = nnn]

\* mutant: the stack pointer is incremented before the return address is stored
exec_CallSubroutineAtNNN_preincrement(self, nnn) ==
    LET s1 == StackSet(self, self.stackpointer + 1, self.program_counter)
    IN  IF s1.panic # "" THEN s1
        ELSE [s1 EXCEPT !.stackpointer = @ + 1, !.program_counter = nnn]

\* self.stack.set(self.stackpointer, self.program_counter);
\* self.stackpointer += 1; self.program_counter = nnn
exec_CallSubroutineAtNNN(self, nnn) ==
    LET s1 == StackSet(self, self.stackpointer, self.program_counter)
    IN  IF s1.panic # "" THEN s1
        ELSE IF Overflows(self.stackpointer + 1, U8_MOD) /\ overflow_checks
        THEN Panic(s1, "attempt to add with overflow")
        ELSE [s1 EXCEPT !.stackpointer = Wrap(@ + 1, U8_MOD), !.program_counter = nnn]

exec_SkipNextInstructionIfXIsKK(self, x, kk) ==
    IF get_register(self, x) = kk THEN SkipNext(self) ELSE self

\* mutant: the skip is taken when Vx equals kk
exec_SkipNextInstructionIfXIsNotKK_inverted(self, x, kk) ==
    IF get_register(self, x) = kk THEN SkipNext(self) ELSE self

exec_SkipNextInstructionIfXIsNotKK(self, x, kk) ==
    IF get_register(self, x) # kk THEN SkipNext(self) ELSE self

exec_SkipNextInstructionIfXIsY(self, x, y) ==
    IF get_register(self, x) = get_register(self, y) THEN SkipNext(self) ELSE self

\* mutant: kk is added to the register instead of replacing its value
exec_LoadRegisterX_adds(self, x, kk) ==
    set_register(self, x, Wrap(get_register(self, x) + kk, U8_MOD))

exec_LoadRegisterX(self, x, kk) == set_register(self, x, kk)

\* mutant: the carry of the addition is written to VF
exec_AddToRegisterX_with_carry(self, x, kk) ==
    LET sum == get_register(self, x) + kk
    IN  set_register(set_register(self, x, Wrap(sum, U8_MOD)), 15,
                     IF Overflows(sum, U8_MOD) THEN 1 ELSE 0)

\* vx.overflowing_add(kk).0
exec_AddToRegisterX(self, x, kk) ==
    set_register(self, x, Wrap(get_register(self, x) + kk, U8_MOD))

exec_LoadRegisterXIntoY(self, x, y) == set_register(self, x, get_register(self, y))

\* mutant: the logic operation also resets VF
exec_LoadXOrYinX_clears_flag(self, x, y) ==
    set_register(
        set_register(self, x, BitOr(get_register(self, x), get_register(self, y), 8)),
        15, 0)

exec_LoadXOrYinX(self, x, y) ==
    set_register(self, x, BitOr(get_register(self, x), get_register(self, y), 8))

exec_LoadXAndYInX(self, x, y) ==
    set_register(self, x, BitAnd(get_register(self, x), get_register(self, y), 8))

exec_LoadXXorYInX(self, x, y) ==
    set_register(self, x, BitXor(get_register(self, x), get_register(self, y), 8))

\* mutant: the carry is taken at a sum of 255 already
exec_AddYToX_carry_at_255(self, x, y) ==
    LET vx == get_register(self, x)
        vy == get_register(self, y)
        res == Wrap(vy + vx, U8_MOD)
    IN  set_register(set_register(self, x, res), 15, IF vy + vx >= 255 THEN 1 ELSE 0)

\* (res, fv) = vy.overflowing_add(vx); Vx = res; then VF = fv
exec_AddYToX(self, x, y) ==
    LET vx == get_register(self, x)
        vy == get_register(self, y)
        res == Wrap(vy + vx, U8_MOD)
        fv == Overflows(vy + vx, U8_MOD)
    IN  set_register(set_register(self, x, res), 15, IF fv THEN 1 ELSE 0)

\* mutant: the flag is the borrow itself, and equal operands count as a borrow
exec_SubYFromX_flag_is_borrow(self, x, y) ==
    LET vx == get_register(self, x)
        vy == get_register(self, y)
        res == Wrap(vx - vy, U8_MOD)
    IN  set_register(set_register(self, x, res), 15, IF vx <= vy THEN 1 ELSE 0)

\* (res, fv) = vx.overflowing_sub(vy); Vx = res; then VF = !fv
exec_SubYFromX(self, x, y) ==
    LET vx == get_register(self, x)
        vy == get_register(self, y)
        res == Wrap(vx - vy, U8_MOD)
        fv == Overflows(vx - vy, U8_MOD)
    IN  set_register(set_register(self, x, res), 15, IF ~fv THEN 1 ELSE 0)

\* vf = (vx & 1 == 1); Vx = vx >> 1; then VF = vf
exec_ShiftXRight1(self, x) ==
    LET vx == get_register(self, x)
        vf == IF vx % 2 = 1 THEN 1 ELSE 0
    IN  set_register(set_register(self, x, Shr(vx, 1)), 15, vf)

\* mutant: the flag is taken from bit 6
exec_ShiftXLeft1_flag_bit6(self, x) ==
    LET vx == get_register(self, x)
        res == Wrap(vx * 2, U8_MOD)
    IN  set_register(set_register(self, x, res), 15, Shr(vx, 6) % 2)

\* fv = (vx >> 7) & 1; Vx = vx.wrapping_shl(1); then VF = fv
exec_ShiftXLeft1(self, x) ==
    LET vx == get_register(self, x)
        fv == Shr(vx, 7) % 2
        res == Wrap(vx * 2, U8_MOD)
    IN  set_register(set_register(self, x, res), 15, fv)

\* mutant: the flag is written first, the difference last
exec_SubXFromY_flag_first(self, x, y) ==
    LET vx == get_register(self, x)
        vy == get_register(self, y)
        res == Wrap(vy - vx, U8_MOD)
        fv == Overflows(vy - vx, U8_MOD)
    IN  set_register(set_register(self, 15, IF ~fv THEN 1 ELSE 0), x, res)

\* (res, fv) = vy.overflowing_sub(vx); Vx = res; then VF = !fv
exec_SubXFromY(self, x, y) ==
    LET vx == get_register(self, x)
        vy == get_register(self, y)
        res == Wrap(vy - vx, U8_MOD)
        fv == Overflows(vy - vx, U8_MOD)
    IN  set_register(set_register(self, x, res), 15, IF ~fv THEN 1 ELSE 0)

exec_SkipNextInstructionIfXIsNotY(self, x, y) ==
    IF get_register(self, x) # get_register(self, y) THEN SkipNext(self) ELSE self

exec_SetIndexRegister(self, nnn) == set_index_register(self, nnn)

\* v0 = u16::from(V0 & 0xf); self.program_counter = nnn + v0
exec_JumpToAddressPlusV0(self, nnn) ==
    LET v0 == get_register(self, 0) % 16
    IN  IF Overflows(nnn + v0, U16_MOD) /\ overflow_checks
        THEN Panic(self, "attempt to add with overflow")
        ELSE [self EXCEPT !.program_counter = Wrap(nnn + v0, U16_MOD)]

\* mutant: the random byte is stored without the mask
exec_SetXToRandom_unmasked(self, x, kk) ==
    set_register([self EXCEPT !.rng = @ + 1], x, RngByte(self.rng))

\* random_byte = self.rng.random(); Vx = random_byte & kk
exec_SetXToRandom(self, x, kk) ==
    LET random_byte == RngByte(self.rng)
    IN  set_register([self EXCEPT !.rng = @ + 1], x, BitAnd(random_byte, kk, 8))

\* bit `sprite_column` of a sprite byte, counted from the left:
\* sprite >> (7 - sprite_column) & 1 == 1
sprite_pixel_set(sprite, sprite_column) == Shr(sprite, 7 - sprite_column) % 2 = 1

\* mutant: a column past the right edge wraps to the left edge
DisplayRow_wraps(self, sprite, start_x, pixel_column, sprite_column) ==
    LET columns == {c \in sprite_column..7 : pixel_column < DISPLAY_HEIGHT}
        at(c) == (start_x + c) % DISPLAY_WIDTH
        collides == \E c \in columns :
                        self.framebuffer[pixel_column][at(c)] /\ sprite_pixel_set(sprite, c)
        sf == IF collides THEN set_register(self, 15, 1) ELSE self
    IN  IF columns = {} THEN self
        ELSE [sf EXCEPT !.framebuffer[pixel_column] =
                [pixel_row \in 0..(DISPLAY_WIDTH - 1) |->
                    IF \E c \in columns : at(c) = pixel_row
                    THEN @[pixel_row] #
                         sprite_pixel_set(sprite, CHOOSE c \in columns : at(c) = pixel_row)
                    ELSE @[pixel_row]]]

\* one row of a sprite: for sprite_column in 0..8.  The eight iterations touch
\* eight different cells of one framebuffer row, so the loop is written as one
\* assignment to that row: the cells inside the framebuffer are XORed with
\* their sprite bit, and VF is set if any of them was lit under a set bit.
DisplayRow(self, sprite, start_x, pixel_column, sprite_column) ==
    LET columns == {c \in sprite_column..7 :
                        start_x + c < DISPLAY_WIDTH /\ pixel_column < DISPLAY_HEIGHT}
        collides == \E c \in columns :
                        self.framebuffer[pixel_column][start_x + c]
                            /\ sprite_pixel_set(sprite, c)
        sf == IF collides THEN set_register(self, 15, 1) ELSE self
    IN  IF columns = {} THEN self
        ELSE [sf EXCEPT !.framebuffer[pixel_column] =
                [pixel_row \in 0..(DISPLAY_WIDTH - 1) |->
                    IF pixel_row - start_x \in columns
                    THEN @[pixel_row] # sprite_pixel_set(sprite, pixel_row - start_x)
                    ELSE @[pixel_row]]]

\* mutant: the rows stop one byte before the end of RAM
RECURSIVE DisplayRows_stop_early(_, _, _, _, _, _)
DisplayRows_stop_early(self, sprite_start, start_x, start_y, n, sprite_row) ==
    IF sprite_row >= n THEN self
    ELSE IF sprite_start + sprite_row >= RAM_SIZE - 1 THEN self
    ELSE LET sprite == self.memory[sprite_start + sprite_row]
             s1 == DisplayRow(self, sprite, start_x, start_y + sprite_row, 0)
         IN  DisplayRows_stop_early(s1, sprite_start, start_x, start_y, n, sprite_row + 1)

\* for sprite_row in 0..n, with the early return at the end of RAM
RECURSIVE DisplayRows(_, _, _, _, _, _)
DisplayRows(self, sprite_start, start_x, start_y, n, sprite_row) ==
    IF sprite_row >= n THEN self
    ELSE IF sprite_start + sprite_row >= RAM_SIZE THEN self
    ELSE LET sprite == self.memory[sprite_start + sprite_row]
             s1 == DisplayRow(self, sprite, start_x, start_y + sprite_row, 0)
         IN  DisplayRows(s1, sprite_start, start_x, start_y, n, sprite_row + 1)

\* mutant: the sprite is drawn onto a cleared framebuffer
exec_Display_on_cleared(self, x, y, n) ==
    LET start_x == get_register(self, x) % DISPLAY_WIDTH
        start_y == get_register(self, y) % DISPLAY_HEIGHT
        sprite_start == get_index_register(self)
    IN  DisplayRows(set_register(exec_ClearScreen(self), 15, 0),
                    sprite_start, start_x, start_y, n, 0)

exec_Display(self, x, y, n) ==
    LET start_x == get_register(self, x) % DISPLAY_WIDTH
        start_y == get_register(self, y) % DISPLAY_HEIGHT
        sprite_start == get_index_register(self)
    IN  DisplayRows(set_register(self, 15, 0), sprite_start, start_x, start_y, n, 0)

\* if !self.keyboard[x as usize]
exec_SkipIfVxNotPressed(self, x) ==
    IF ~self.keyboard[x] THEN SkipNext(self) ELSE self

\* if self.keyboard[x as usize]
exec_SkipIfVxPressed(self, x) ==
    IF self.keyboard[x] THEN SkipNext(self) ELSE self

\* keyboard.iter().position(|pressed| *pressed); -1 is None
get_pressed_key(self) ==
    IF \E k \in 0..(NUM_KEYS - 1) : self.keyboard[k]
    THEN CHOOSE k \in 0..(NUM_KEYS - 1) :
            self.keyboard[k] /\ \A j \in 0..(k - 1) : ~self.keyboard[j]
    ELSE -1

\* mutant: the program counter is left alone while no key is pressed
exec_WaitForKeyPressed_no_rewind(self, x) == self

\* None => self.program_counter -= 2, Some(x) => {}
exec_WaitForKeyPressed(self, x) ==
    IF get_pressed_key(self) = -1
    THEN IF Overflows(self.program_counter - 2, U16_MOD) /\ overflow_checks
         THEN Panic(self, "attempt to subtract with overflow")
         ELSE [self EXCEPT !.program_counter = Wrap(@ - 2, U16_MOD)]
    ELSE self

exec_SetXToDelayTimer(self, x) == set_register(self, x, get_delay_timer(self))

exec_SetDelayTimerToX(self, x) == set_delay_timer(self, get_register(self, x))

exec_SetSoundTimerToX(self, x) == set_sound_timer(self, get_register(self, x))

\* added = vi + vx (u16)
exec_AddXtoI(self, x) ==
    LET added == get_index_register(self) + get_register(self, x)
    IN  IF Overflows(added, U16_MOD) /\ overflow_checks
        THEN Panic(self, "attempt to add with overflow")
        ELSE set_index_register(self, Wrap(added, U16_MOD))

\* vx = u16::from(self.registers.get_register(x) * 5): the product is a u8
exec_SetIToSpriteX(self, x) ==
    LET product == get_register(self, x) * 5
    IN  IF Overflows(product, U8_MOD) /\ overflow_checks
        THEN Panic(self, "attempt to multiply with overflow")
        ELSE set_index_register(self, Wrap(product, U8_MOD))

\* mutant: the tens digit is taken without first dropping the hundreds
exec_LoadBCDOfX_tens_unreduced(self, x) ==
    LET vx == get_register(self, x)
        store_index == get_index_register(self)
        s1 == RamSet(self, store_index, vx \div 100)
        s2 == IF s1.panic # "" THEN s1
              ELSE RamSet(s1, store_index + 1, vx \div 10)
    IN  IF s2.panic # "" THEN s2
        ELSE RamSet(s2, store_index + 2, (vx % 100) % 10)

\* memory.set(I, vx / 100); memory.set(I + 1, (vx % 100) / 10);
\* memory.set(I + 2, (vx % 100) % 10)
exec_LoadBCDOfX(self, x) ==
    LET vx == get_register(self, x)
        store_index == get_index_register(self)
        s1 == RamSet(self, store_index, vx \div 100)
        s2 == IF s1.panic # "" THEN s1
              ELSE RamSet(s1, store_index + 1, (vx % 100) \div 10)
    IN  IF s2.panic # "" THEN s2
        ELSE RamSet(s2, store_index + 2, (vx % 100) % 10)

\* for register in 0..=x { memory.set(vi + register, V[register]) }
RECURSIVE Write0ThroughXFrom(_, _, _, _)
Write0ThroughXFrom(self, vi, x, register) ==
    IF register > x \/ self.panic # "" THEN self
    ELSE Write0ThroughXFrom(RamSet(self, vi + register, get_register(self, register)),
                            vi, x, register + 1)

\* mutant: the base address I is left out of the store addresses
exec_Write0ThroughX_nobase(self, x) ==
    Write0ThroughXFrom(self, 0, x, 0)

\* mutant: register x itself is not stored
exec_Write0ThroughX_exclusive(self, x) ==
    Write0ThroughXFrom(self, get_index_register(self), x - 1, 0)

exec_Write0ThroughX(self, x) ==
    Write0ThroughXFrom(self, get_index_register(self), x, 0)

\* for i in 0..=x { V[i] = memory.get_byte(vi + i) }
RECURSIVE Load0ThroughXFrom(_, _, _, _)
Load0ThroughXFrom(self, vi, x, i) ==
    IF i > x \/ self.panic # "" THEN self
    ELSE Load0ThroughXFrom(
            IF RamGetByteOk(vi + i)
            THEN set_register(self, i, RamGetByte(self, vi + i))
            ELSE Panic(self, "ram index out of bounds"),
            vi, x, i + 1)

\* mutant: register x itself is not loaded
exec_Load0ThroughX_exclusive(self, x) ==
    Load0ThroughXFrom(self, get_index_register(self), x - 1, 0)

exec_Load0ThroughX(self, x) ==
    Load0ThroughXFrom(self, get_index_register(self), x, 0)

\* Cpu::execute(&mut self, instruction)
execute(self, i) ==
    CASE i.op = "Noop" -> exec_Noop(self)
      [] i.op = "ClearScreen" -> exec_ClearScreen(self)
      [] i.op = "ReturnFromSubroutine" -> exec_ReturnFromSubroutine(self)
      [] i.op = "Jump" -> exec_Jump(self, i.nnn)
      [] i.op = "CallSubroutineAtNNN" -> exec_CallSubroutineAtNNN(self, i.nnn)
      [] i.op = "SkipNextInstructionIfXIsKK" ->
            exec_SkipNextInstructionIfXIsKK(self, i.x, i.kk)
      [] i.op = "SkipNextInstructionIfXIsNotKK" ->
            exec_SkipNextInstructionIfXIsNotKK(self, i.x, i.kk)
      [] i.op = "SkipNextInstructionIfXIsY" ->
            exec_SkipNextInstructionIfXIsY(self, i.x, i.y)
      [] i.op = "LoadRegisterX" -> exec_LoadRegisterX(self, i.x, i.kk)
      [] i.op = "AddToRegisterX" -> exec_AddToRegisterX(self, i.x, i.kk)
      [] i.op = "LoadRegisterXIntoY" -> exec_LoadRegisterXIntoY(self, i.x, i.y)
      [] i.op = "LoadXOrYinX" -> exec_LoadXOrYinX(self, i.x, i.y)
      [] i.op = "LoadXAndYInX" -> exec_LoadXAndYInX(self, i.x, i.y)
      [] i.op = "LoadXXorYInX" -> exec_LoadXXorYInX(self, i.x, i.y)
      [] i.op = "AddYToX" -> exec_AddYToX(self, i.x, i.y)
      [] i.op = "SubYFromX" -> exec_SubYFromX(self, i.x, i.y)
      [] i.op = "ShiftXRight1" -> exec_ShiftXRight1(self, i.x)
      [] i.op = "ShiftXLeft1" -> exec_ShiftXLeft1(self, i.x)
      [] i.op = "SubXFromY" -> exec_SubXFromY(self, i.x, i.y)
      [] i.op = "SkipNextInstructionIfXIsNotY" ->
            exec_SkipNextInstructionIfXIsNotY(self, i.x, i.y)
      [] i.op = "SetIndexRegister" -> exec_SetIndexRegister(self, i.nnn)
      [] i.op = "JumpToAddressPlusV0" -> exec_JumpToAddressPlusV0(self, i.nnn)
      [] i.op = "SetXToRandom" -> exec_SetXToRandom(self, i.x, i.kk)
      [] i.op = "Display" -> exec_Display(self, i.x, i.y, i.n)
      [] i.op = "SkipIfVxNotPressed" -> exec_SkipIfVxNotPressed(self, i.x)
      [] i.op = "SkipIfVxPressed" -> exec_SkipIfVxPressed(self, i.x)
      [] i.op = "WaitForKeyPressed" -> exec_WaitForKeyPressed(self, i.x)
      [] i.op = "SetXToDelayTimer" -> exec_SetXToDelayTimer(self, i.x)
      [] i.op = "SetDelayTimerToX" -> exec_SetDelayTimerToX(self, i.x)
      [] i.op = "SetSoundTimerToX" -> exec_SetSoundTimerToX(self, i.x)
      [] i.op = "AddXtoI" -> exec_AddXtoI(self, i.x)
      [] i.op = "SetIToSpriteX" -> exec_SetIToSpriteX(self, i.x)
      [] i.op = "LoadBCDOfX" -> exec_LoadBCDOfX(self, i.x)
      [] i.op = "Write0ThroughX" -> exec_Write0ThroughX(self, i.x)
      [] i.op = "Load0ThroughX" -> exec_Load0ThroughX(self, i.x)

\* --------------------------------------------------------------- Cpu API
\* Cpu::fetch(): self.memory.get_opcode(self.program_counter); -1 is the panic
\* of an index at or past RAM_SIZE
fetch(self) ==
    IF RamGetOpcodeOk(self.program_counter)
    THEN RamGetOpcode(self, self.program_counter)
    ELSE -1

\* mutant: the timers are decremented before the instruction executes
TickThenDecodeExecute(self, opcode) ==
    LET instruction == InstructionNew(opcode)
    IN  IF instruction.op = "panic"
        THEN Panic(self, "decode: unimplemented opcode")
        ELSE execute(decrement_delay_timer(decrement_sound_timer(self)), instruction)

\* the part of cycle() after `self.program_counter += 2`:
\* decode, execute, then the two timer decrements
DecodeExecuteTick(self, opcode) ==
    LET instruction == InstructionNew(opcode)
    IN  IF instruction.op = "panic"
        THEN Panic(self, "decode: unimplemented opcode")
        ELSE LET s1 == execute(self, instruction)
             IN  IF s1.panic # "" THEN s1
                 ELSE decrement_delay_timer(decrement_sound_timer(s1))

\* Cpu::cycle()
cycle(self) ==
    LET opcode == fetch(self)
    IN  IF opcode = -1 THEN Panic(self, "ram index out of bounds")
        ELSE LET s1 == SkipNext(self)
             IN  IF s1.panic # "" THEN s1 ELSE DecodeExecuteTick(s1, opcode)

\* mutant: every key up to `key` takes the state
set_key_state_up_to(self, key, state) ==
    IF ~(key <= NUM_KEYS) THEN Panic(self, "assertion failed: key <= NUM_KEYS")
    ELSE IF key >= NUM_KEYS THEN Panic(self, "keyboard index out of bounds")
    ELSE [self EXCEPT !.keyboard =
            [k \in 0..(NUM_KEYS - 1) |-> IF k <= key THEN state ELSE @[k]]]

\* Cpu::set_key_state(key, state): assert!(key <= NUM_KEYS); keyboard[key] = state
set_key_state(self, key, state) ==
    IF ~(key <= NUM_KEYS) THEN Panic(self, "assertion failed: key <= NUM_KEYS")
    ELSE IF key >= NUM_KEYS THEN Panic(self, "keyboard index out of bounds")
    ELSE [self EXCEPT !.keyboard[key] = state]

\* for (x, y) in rom.iter().enumerate() { memory.set(ROM_START_ADDRESS + x, *y) }
\* The loop as one assignment: the bytes that fit below RAM_SIZE are stored,
\* and Ram::set panics on the first that does not.
LoadRom(self, bytes) ==
    LET room == RAM_SIZE - ROM_START_ADDRESS
        stored == IF Len(bytes) <= room THEN Len(bytes) ELSE room
        loaded ==
            [self EXCEPT !.memory =
                [idx \in ROM_START_ADDRESS..(ROM_START_ADDRESS + stored - 1) |->
                    bytes[idx - ROM_START_ADDRESS + 1]] @@ @]
    IN  IF Len(bytes) > room THEN Panic(loaded, "ram index out of bounds") ELSE loaded

\* Cpu::new(rom, framebuffer); the hosts hand in an all-false framebuffer
NewFields(ram) ==
    [program_counter |-> ROM_START_ADDRESS,
     registers |-> RegistersDefault,
     memory |-> ram,
     stack |-> StackDefault,
     stackpointer |-> 0,
     keyboard |-> [k \in 0..(NUM_KEYS - 1) |-> FALSE],
     framebuffer |-> [row \in 0..(DISPLAY_HEIGHT - 1) |->
                        [col \in 0..(DISPLAY_WIDTH - 1) |-> FALSE]],
     rng |-> 0,
     panic |-> ""]

\* mutant: the RAM is created zeroed, without the font table
new_without_fonts(bytes) ==
    LoadRom(NewFields([idx \in 0..(RAM_SIZE - 1) |-> 0]), bytes)

new(bytes) == LoadRom(NewFields(with_fonts), bytes)

\* ---------------------------------------------------------------- actions
Becomes(self) ==
    /\ program_counter' = self.program_counter
    /\ registers' = self.registers
    /\ memory' = self.memory
    /\ stack' = self.stack
    /\ stackpointer' = self.stackpointer
    /\ keyboard' = self.keyboard
    /\ framebuffer' = self.framebuffer
    /\ rng' = self.rng
    /\ panic' = self.panic

NoCycleYet ==
    [at |-> -1, opcode |-> -1, sp |-> -1, returned |-> "none",
     registers |-> RegistersDefault, keyboard |-> NewFields(with_fonts).keyboard,
     framebuffer |-> NewFields(with_fonts).framebuffer]
NeverSet == [v |-> 0, n |-> 0]

\* Application::default(): initialized: false, running: false
ApplicationDefault == [initialized |-> FALSE, running |-> FALSE]
\* the engine is used as a library, as by the tests of cpu.rs: there is no
\* Application around it
NoApplication == "no Application"
NoMessage == [n |-> 0, type |-> "none"]
\* no set_key_state() call was made yet
NoKeyCall == [key |-> -1, state |-> FALSE]

\* the history of the cycles as one value
Hist == [cycles |-> cycles, last |-> last, since_set |-> since_set, pending |-> pending]
BecomesHist(hist) ==
    /\ cycles' = hist.cycles
    /\ last' = hist.last
    /\ since_set' = hist.since_set
    /\ pending' = hist.pending

\* the process starts: the Cpu is constructed from a ROM
Constructed(roms) ==
    /\ rom \in roms
    /\ overflow_checks \in BOOLEAN
    /\ key_call = NoKeyCall
    /\ LET self == new(rom)
       IN  /\ program_counter = self.program_counter
           /\ registers = self.registers
           /\ memory = self.memory
           /\ stack = self.stack
           /\ stackpointer = self.stackpointer
           /\ keyboard = self.keyboard
           /\ framebuffer = self.framebuffer
           /\ rng = self.rng
           /\ panic = self.panic
    /\ cycles = 0
    /\ key_events = 0
    /\ last = NoCycleYet
    /\ since_set = [delay |-> NeverSet, sound |-> NeverSet]
    /\ pending = <<>>
    /\ message = NoMessage

\* a caller of the library constructs the Cpu and holds it directly
Start(roms) ==
    /\ Constructed(roms)
    /\ app = NoApplication

\* history of a timer: the value the last timer-set instruction wrote, and the
\* number of cycles run since, that instruction's own cycle included
SinceSet(hist, is_set, v) ==
    IF is_set THEN [v |-> v, n |-> 1] ELSE [hist EXCEPT !.n = @ + 1]

\* history of the calls: a cycle that returned from executing a
\* CallSubroutineAtNNN at address `at` adds its return address at + 2, one
\* that returned from executing a ReturnFromSubroutine removes the latest
Pending(hist, op, at, returned) ==
    IF ~returned THEN hist
    ELSE IF op = "CallSubroutineAtNNN" THEN Append(hist, at + 2)
    ELSE IF op = "ReturnFromSubroutine" THEN SubSeq(hist, 1, Len(hist) - 1)
    ELSE hist

\* one call of cpu.cycle() on `self`, and the history after it
AfterCycle(self, hist) ==
    LET after == cycle(self)
        opcode == fetch(self)
        i == IF opcode = -1 THEN DecodePanic ELSE InstructionNew(opcode)
    IN  [cpu |-> after,
         hist |->
            [cycles |-> hist.cycles + 1,
             last |-> [at |-> self.program_counter, opcode |-> opcode,
                       sp |-> self.stackpointer,
                       returned |-> IF after.panic = "" THEN "()" ELSE "panic",
                       registers |-> self.registers, keyboard |-> self.keyboard,
                       framebuffer |-> self.framebuffer],
             since_set |->
                [delay |-> SinceSet(hist.since_set.delay, i.op = "SetDelayTimerToX",
                                    self.registers.register[i.x]),
                 sound |-> SinceSet(hist.since_set.sound, i.op = "SetSoundTimerToX",
                                    self.registers.register[i.x])],
             pending |-> Pending(hist.pending, i.op, self.program_counter,
                                 after.panic = "")]]

\* a caller holding the Cpu calls cpu.cycle() once; cycle() returns () or the
\* process panics
Cycle(budget) ==
    /\ panic = ""
    /\ cycles < budget
    /\ LET s == AfterCycle(Self, Hist)
       IN  /\ Becomes(s.cpu)
           /\ BecomesHist(s.hist)
    /\ UNCHANGED <<overflow_checks, rom, key_events, key_call, app, message>>

\* a caller holding the Cpu calls cpu.set_key_state(key, state), with a key
\* of `keys`, between two cycle() calls
KeyCalls(keys, budget) ==
    /\ panic = ""
    /\ key_events < budget
    /\ \E key \in keys, state \in BOOLEAN :
          /\ Becomes(set_key_state(Self, key, state))
          /\ key_call' = [key |-> key, state |-> state]
    /\ key_events' = key_events + 1
    /\ UNCHANGED <<overflow_checks, rom, cycles, last, since_set, pending, app,
                   message>>

\* the caller writes the keys 0..MaxKey
KeyEvent == KeyCalls(0..MaxKey, MaxKeyEvents)

\* the public methods of the Cpu, one call per step, as the tests of cpu.rs
\* and any user of the library make them: at most `budget` calls of cycle(),
\* and calls of set_key_state() between them
Run(budget) == Cycle(budget) \/ KeyEvent
Next == Run(MaxCycles)
\* the calls made on a program that reads no key: cycle() only
NextCycles == Cycle(MaxCycles)
NextDeep == Run(DeepCycles)

\* ------------------------------------------------------------------ ROMs
\* a 16-bit opcode as its two bytes, high byte first
W(opcode) == <<opcode \div 256, opcode % 256>>
\* the opcode with top nibble `group`, register nibbles x and y, low nibble n
OpXYN(group, x, y, n) == W(group * 4096 + x * 256 + y * 16 + n)
\* the opcode with top nibble `group`, register nibble x and low byte kk
OpXKK(group, x, kk) == W(group * 4096 + x * 256 + kk)
\* the opcode with top nibble `group` and address nnn
OpNNN(group, nnn) == W(group * 4096 + nnn)

\* byte operands around the ends and the middle of 0..255
ByteSamples ==
    (0..ByteSpread) \cup ((128 - ByteSpread)..(128 + ByteSpread))
                    \cup ((255 - ByteSpread)..255)

\* LoadX v; Set{Delay,Sound}TimerToX; SetYToDelayTimer; SetXToDelayTimer; Jump self
RomsTimers ==
    { OpXKK(6, x, v) \o OpXKK(15, x, set) \o OpXKK(15, 1, 7) \o OpXKK(15, x, 7)
        \o OpNNN(1, ROM_START_ADDRESS + 8) :
        x \in {0, 5, 15}, v \in ByteSamples \cup (0..4), set \in {21, 24} }

InitTimers == Start(RomsTimers)
SpecTimers == InitTimers /\ [][Next]_vars

\* Return at stackpointer 0; a call that calls itself until the stack is full;
\* and Jump to word i, where a Call targets word j, which holds a Return
\* (every other word is a Noop)
RomCallReturn(i, j, len) ==
    OpNNN(1, ROM_START_ADDRESS + 2 * i) \o
    [b \in 1..(2 * len) |->
        LET word == IF (b + 1) \div 2 = i THEN 8192 + ROM_START_ADDRESS + 2 * j
                    ELSE IF (b + 1) \div 2 = j THEN 238
                    ELSE 0
        IN  W(word)[2 - (b % 2)]]

\* words 1..depth each call the next word, word depth + 1 holds a Return
RomNested(depth) ==
    [b \in 1..(2 * depth + 2) |->
        LET k == (b + 1) \div 2
            word == IF k <= depth THEN 8192 + ROM_START_ADDRESS + 2 * k ELSE 238
        IN  W(word)[2 - (b % 2)]]

RomsStack ==
    {W(238), OpNNN(2, ROM_START_ADDRESS)}
    \cup {RomCallReturn(i, j, 4) : i \in 1..3, j \in 1..4}
    \cup {RomNested(depth) : depth \in 1..3}

\* word pairs at 0x200 + 4j: pair 0 calls pair 1 and then jumps to itself,
\* pair j < depth calls pair j + 1 and then returns, pair `depth` returns
RomNest(depth) ==
    [b \in 1..(4 * depth + 2) |->
        LET w == (b + 1) \div 2
            j == (w - 1) \div 2
            word == IF w % 2 = 1
                    THEN IF j < depth THEN 8192 + ROM_START_ADDRESS + 4 * (j + 1)
                         ELSE 238
                    ELSE IF j = 0 THEN 4096 + ROM_START_ADDRESS + 2 ELSE 238
        IN  W(word)[2 - (b % 2)]]
RomsNest == RomsStack \cup {RomNest(depth) : depth \in {1, 2, STACK_SIZE, STACK_SIZE + 1}}

InitNest == Start(RomsNest)
NextNest == Cycle(NestCycles)
SpecNest == InitNest /\ [][NextNest]_vars

InitStack == Start(RomsStack)
SpecStack == InitStack /\ [][NextDeep]_vars

\* opcodes of groups 8, E and F that Instruction::new maps to no instruction,
\* alone or after a LoadX, and mapped neighbours of them
BadWords ==
    {8 * 4096 + x * 256 + y * 16 + n : x \in {0, 1}, y \in {0, 2}, n \in (8..13) \cup {15}}
    \cup {14 * 4096 + x * 256 + kk : x \in {0, 1}, kk \in {0, 157, 159, 160, 162, 255}}
    \cup {15 * 4096 + x * 256 + kk :
            x \in {0, 1}, kk \in {0, 6, 8, 11, 20, 22, 25, 31, 40, 52, 86, 102, 255}}
GoodWords ==
    {8 * 4096 + 16 + 7, 8 * 4096 + 16 + 14, 14 * 4096 + 158, 14 * 4096 + 161,
     15 * 4096 + 7, 15 * 4096 + 30, 15 * 4096 + 101}
RomsDecode ==
    {W(word) : word \in BadWords \cup GoodWords}
    \cup {OpXKK(6, 1, 9) \o W(word) \o W(word) : word \in BadWords \cup GoodWords}

InitDecode == Start(RomsDecode)
SpecDecode == InitDecode /\ [][Next]_vars

\* LoadBCDOfX, Write0ThroughX and Load0ThroughX with I in the font table,
\* just past it, in the program area and at the top of RAM; and with I pushed
\* past RAM_SIZE by AddXtoI
MemAddresses == {0, 78, 79, 80, 768, 4093, 4094, 4095}
RomsMem ==
    {OpXKK(15, 0, 51), OpXKK(15, 2, 85), OpXKK(15, 2, 101)}
    \cup {OpNNN(10, nnn) \o OpXKK(15, 0, 51) : nnn \in MemAddresses}
    \cup {OpXKK(6, 0, v) \o OpNNN(10, nnn) \o OpXKK(15, 0, 51) :
            v \in {123, 255}, nnn \in MemAddresses}
    \cup {OpXKK(6, 0, 17) \o OpXKK(6, 1, 34) \o OpXKK(6, 2, 51) \o OpNNN(10, nnn)
            \o OpXKK(15, x, 85) : x \in {0, 2}, nnn \in MemAddresses}
    \cup {OpXKK(6, 3, 68) \o OpNNN(10, nnn) \o OpXKK(15, x, 101) :
            x \in {0, 2}, nnn \in MemAddresses}
    \cup {OpNNN(10, 4095) \o OpXKK(6, 0, 255) \o OpXKK(15, 0, 30) \o OpXKK(15, 0, low) :
            low \in {51, 85, 101}}

InitMem == Start(RomsMem)
SpecMem == InitMem /\ [][Next]_vars

\* the ROMs of the repository's unit tests, and ROMs of length 0, 1, the
\* largest that fits (RAM_SIZE - ROM_START_ADDRESS bytes) and one byte more
RomOfLength(len) == [b \in 1..len |-> (b % 255) + 1]
RomsTests ==
    {W(224), W(238), W(4096 + 291), W(8192 + 291), OpXKK(3, 1, 0), OpXKK(3, 1, 1),
     OpXKK(4, 1, 0), OpXKK(4, 1, 1), OpXYN(5, 1, 2, 0), OpXKK(6, 0, 34),
     OpXKK(6, 1, 35), OpXKK(7, 1, 5), OpNNN(10, 291), OpNNN(11, 768),
     OpXKK(12, 0, 0), OpXKK(12, 0, 255), OpXKK(14, 0, 158), OpXKK(14, 0, 161),
     OpXKK(15, 0, 7), OpXKK(15, 0, 10), OpXKK(15, 0, 21), OpXKK(15, 0, 24),
     OpXKK(15, 6, 30), OpXKK(15, 0, 41), OpXKK(15, 0, 51),
     OpXKK(15, 3, 101) \o <<1, 2, 3>>,
     OpXYN(13, 1, 2, 1) \o <<0, 0, 0, 0, 0, 0, 0, 255, 255>>}
    \cup {OpXYN(8, 1, 2, n) : n \in (0..7) \cup {14}}
    \cup {OpXKK(15, x, 85) : x \in {0, 3, 15}}
    \cup {RomOfLength(len) :
            len \in {0, 1, RAM_SIZE - ROM_START_ADDRESS, RAM_SIZE - ROM_START_ADDRESS + 1}}

Init == Start(RomsTests)
Spec == Init /\ [][Next]_vars

\* LoadX a; LoadY b; AddYToX, for registers apart, equal, and with VF as x or y
RegisterPairs == {<<0, 1>>, <<1, 0>>, <<3, 3>>, <<14, 15>>, <<15, 2>>, <<15, 15>>}
RomsAdd ==
    { OpXKK(6, xy[1], a) \o OpXKK(6, xy[2], b) \o OpXYN(8, xy[1], xy[2], 4) :
        xy \in RegisterPairs, a \in ByteSamples, b \in ByteSamples }

InitAdd == Start(RomsAdd)
SpecAdd == InitAdd /\ [][NextCycles]_vars

\* LoadX a; LoadY b; then one of AddYToX, SubYFromX, ShiftXRight1, SubXFromY,
\* ShiftXLeft1 on the pair
AluLowNibbles == {4, 5, 6, 7, 14}
RomsAlu ==
    { OpXKK(6, xy[1], a) \o OpXKK(6, xy[2], b) \o OpXYN(8, xy[1], xy[2], n) :
        xy \in RegisterPairs, a \in ByteSamples, b \in ByteSamples, n \in AluLowNibbles }

InitAlu == Start(RomsAlu)
SpecAlu == InitAlu /\ [][NextCycles]_vars

\* the budget of a drawing program: its instructions, then Noops
NextDraw == Cycle(DeepCycles)

\* LoadX vx; LoadY vy; draw the glyph "0" of the font table; LoadX vx2; SetI nnn;
\* Display n rows twice over the glyph; ClearScreen twice.  The sprite at nnn
\* is a font glyph or the bytes of the program itself.
OriginsX == {0, 60, 69}
SecondX == {2, 62, 255}
OriginsY == {0, 29, 33}
SpriteHeights == {0, 5, 15}
RomDraw(x, y, vx, vy, vx2, nnn, n) ==
    OpXKK(6, x, vx) \o OpXKK(6, y, vy) \o OpNNN(10, 0) \o OpXYN(13, x, y, 5)
    \o OpXKK(6, x, vx2) \o OpNNN(10, nnn) \o OpXYN(13, x, y, n) \o OpXYN(13, x, y, n)
    \o W(224) \o W(224)
\* V0, V1 stored at the last two bytes of RAM, then a sprite of n rows drawn
\* from I = nnn at or near the end of RAM
RomDrawAtEnd(v0, v1, nnn, n) ==
    OpXKK(6, 0, v0) \o OpXKK(6, 1, v1) \o OpNNN(10, RAM_SIZE - 2) \o OpXKK(15, 1, 85)
    \o OpXKK(6, 2, 3) \o OpNNN(10, 75) \o OpXYN(13, 2, 2, 5)
    \o OpNNN(10, nnn) \o OpXYN(13, 2, 2, n)
RomsDisplay ==
    { RomDraw(xy[1], xy[2], vx, vy, vx2, nnn, n) :
        xy \in {<<0, 1>>, <<3, 3>>, <<15, 2>>}, vx \in OriginsX, vy \in OriginsY,
        vx2 \in SecondX, nnn \in {5, ROM_START_ADDRESS}, n \in SpriteHeights }
    \cup { RomDrawAtEnd(v0, v1, nnn, n) :
             v0 \in {255, 24}, v1 \in {129, 0},
             nnn \in {RAM_SIZE - 3, RAM_SIZE - 2, RAM_SIZE - 1}, n \in {1, 2, 4} }
    \cup { OpXKK(6, 0, add) \o OpNNN(10, RAM_SIZE - 1) \o OpXKK(15, 0, 30)
             \o OpXYN(13, 0, 0, 5) : add \in {1, 255} }

InitDisplay == Start(RomsDisplay)
SpecDisplay == InitDisplay /\ [][NextDraw]_vars

\* LoadX v, then WaitForKeyPressed, SkipIfVxPressed or SkipIfVxNotPressed on
\* register x, then AddToRegisterX; the host presses or releases a key at any
\* point in between
KeyRegisters == {0, 1, 5}
KeyValues == {0, 1, 2}
RomsKeys ==
    { OpXKK(6, x, v) \o OpXKK(g[1], x, g[2]) \o OpXKK(7, x, 16) :
        x \in KeyRegisters, v \in KeyValues, g \in {<<15, 10>>, <<14, 158>>, <<14, 161>>} }
    \cup {OpXKK(15, 0, 10)}

InitKeys == Start(RomsKeys)
SpecKeys == InitKeys /\ [][Next]_vars

\* LoadX v into V0, then JumpToAddressPlusV0 nnn; and LoadX v, then
\* SetIToSpriteX on that register
JumpTargets == {0, 768, 4095}
SpriteDigits == (0..15) \cup {16, 51, 52, 100} \cup ByteSamples
RomsAddr ==
    { OpXKK(6, 0, v) \o OpNNN(11, nnn) : v \in SpriteDigits, nnn \in JumpTargets }
    \cup { OpXKK(6, x, v) \o OpXKK(15, x, 41) : x \in {0, 7, 15}, v \in SpriteDigits }

InitAddr == Start(RomsAddr)
SpecAddr == InitAddr /\ [][NextCycles]_vars

\* a word of group 0x0 executed on a lit framebuffer, and inside a subroutine:
\* the words next to 0x00E0 and 0x00EE, and words whose low byte is 0xE0 or 0xEE
\* under a non-zero second nibble
GroupZeroWords == {0, 1, 223, 225, 237, 239, 480, 4064, 494, 4078, 512, 4095}
RomsGroupZero ==
    { OpNNN(10, 0) \o OpXYN(13, 0, 0, 5) \o W(word) : word \in GroupZeroWords }
    \cup { OpNNN(2, ROM_START_ADDRESS + 4) \o W(0) \o W(word) : word \in GroupZeroWords }

InitGroupZero == Start(RomsGroupZero)
SpecGroupZero == InitGroupZero /\ [][NextCycles]_vars

\* LoadX a; LoadY b; then a conditional skip on the pair, comparing with a
\* byte that is or is not the register's value
SkipValues == {0, 7, 255}
RomsSkips ==
    { OpXKK(6, xy[1], a) \o OpXKK(6, xy[2], b) \o OpXKK(g, xy[1], kk) :
        xy \in RegisterPairs, a \in SkipValues, b \in SkipValues, g \in {3, 4},
        kk \in SkipValues }
    \cup { OpXKK(6, xy[1], a) \o OpXKK(6, xy[2], b) \o OpXYN(g, xy[1], xy[2], 0) :
        xy \in RegisterPairs, a \in SkipValues, b \in SkipValues, g \in {5, 9} }

InitSkips == Start(RomsSkips)
SpecSkips == InitSkips /\ [][NextCycles]_vars

\* LoadX v; SetI nnn; LoadBCDOfX, for every byte v
RomsBcd ==
    { OpXKK(6, 3, v) \o OpNNN(10, nnn) \o OpXKK(15, 3, 51) :
        v \in 0..(U8_MOD - 1), nnn \in {220, RAM_SIZE - 3} }
\* sixteen different bytes, loaded into V0..VF by Load0ThroughX 0xF
BlockData == [r \in 1..NUM_REGISTERS |-> 17 + 13 * (r - 1)]
\* SetI data; Load0ThroughX F; SetI nnn; Write0ThroughX x or Load0ThroughX x;
\* Jump self; data
RomBlock(low, x, nnn) ==
    OpNNN(10, ROM_START_ADDRESS + 10) \o OpXKK(15, 15, 101) \o OpNNN(10, nnn)
    \o OpXKK(15, x, low) \o OpNNN(1, ROM_START_ADDRESS + 8) \o BlockData
RomsStore ==
    RomsBcd
    \cup { RomBlock(low, x, nnn) :
             low \in {85, 101}, x \in {0, 2, 15},
             nnn \in {5, ROM_START_ADDRESS, 768, RAM_SIZE - 16} }
    \cup { RomBlock(low, x, RAM_SIZE - 1 - x) : low \in {85, 101}, x \in {0, 2, 15} }

InitStore == Start(RomsStore)
SpecStore == InitStore /\ [][NextCycles]_vars

\* LoadX f into VF; LoadX a; AddToRegisterX kk on the same register
FlagValues == {0, 77}
RomsImmediate ==
    { OpXKK(6, 15, f) \o OpXKK(6, x, a) \o OpXKK(7, x, kk) :
        f \in FlagValues, x \in {0, 14, 15}, a \in ByteSamples, kk \in ByteSamples }

InitImmediate == Start(RomsImmediate)
SpecImmediate == InitImmediate /\ [][NextCycles]_vars

\* LoadX 77 into VF; LoadX a; LoadY b; then 8XY0, 8XY1, 8XY2 or 8XY3 on the pair
LogicValues == {0, 15, 85, 170, 240, 255}
RomsLogic ==
    { OpXKK(6, 15, 77) \o OpXKK(6, xy[1], a) \o OpXKK(6, xy[2], b)
        \o OpXYN(8, xy[1], xy[2], n) :
        xy \in RegisterPairs, a \in LogicValues, b \in LogicValues, n \in 0..3 }

InitLogic == Start(RomsLogic)
SpecLogic == InitLogic /\ [][NextCycles]_vars

\* the glyph "0" drawn at the top-left corner, then one instruction of every
\* kind, with key writes by the host in between
EveryInstruction ==
    {0, 224, 238, 4096 + 518, 8192 + 518, 12288, 16384, 20480 + 16, 24576 + 341,
     28672 + 257, 36864 + 16, 40960 + 291, 45056 + 768, 49152 + 511,
     53248 + 256 + 16 + 5, 57344 + 158, 57344 + 161}
    \cup {32768 + 16 + n : n \in (0..7) \cup {14}}
    \cup {61440 + low : low \in {7, 10, 21, 24, 30, 41, 51, 85, 101}}
RomsFrame ==
    { OpNNN(10, 0) \o OpXYN(13, 0, 0, 5) \o W(word) : word \in EveryInstruction }

InitFrame == Start(RomsFrame)
SpecFrame == InitFrame /\ [][Next]_vars

\* SetXToRandom under the masks k1, k2 on V0 (or VF), V1 and again on both, a
\* skip that depends on the key the host may have pressed, and one more draw
RandomMasks == {0, 15, 170, 255}
RomsRandom ==
    { OpXKK(12, x, k1) \o OpXKK(12, 1, k2) \o OpXKK(12, x, k2) \o OpXKK(14, 0, 158)
        \o OpXKK(12, 1, k1) \o OpXKK(12, 2, 255) :
        x \in {0, 15}, k1 \in RandomMasks, k2 \in RandomMasks }

\* programs that read the keys, and the programs of RomsFrame with their
\* instruction of every kind, under a caller that writes the first and the
\* last key, pressing and releasing
WrittenKeys == {0, NUM_KEYS - 1}
RomsKeyboard ==
    { OpXKK(14, 15, 158) \o OpXKK(14, 0, 161) \o OpXKK(15, 7, 10),
      OpXKK(15, 0, 10) \o OpXKK(14, 7, 158) }
    \cup RomsFrame
InitKeyboard == Start(RomsKeyboard)
NextKeyboard == Cycle(KeyboardCycles) \/ KeyCalls(WrittenKeys, MaxKeyWrites)
SpecKeyboard == InitKeyboard /\ [][NextKeyboard]_vars

InitRandom == Start(RomsRandom)
SpecRandom == InitRandom /\ [][Next]_vars

\* Jump to an address near the end of RAM, where the zero bytes decode to Noop
\* and the program runs on past 0xFFF; and LoadX v into V0, then
\* JumpToAddressPlusV0 to or just below 0xFFF
RomsFetch ==
    { OpNNN(1, nnn) : nnn \in 4088..4095 }
    \cup { OpXKK(6, 0, v) \o OpNNN(11, nnn) : v \in 0..15, nnn \in {4080, 4095} }

InitFetch == Start(RomsFetch)
SpecFetch == InitFetch /\ [][Next]_vars

\* one word per top nibble and nibble triple (k, 15 - k, 7k mod 16), and the
\* words of groups 8, E and F that decode, on three registers
FieldWords ==
    { top * 4096 + k * 256 + (15 - k) * 16 + ((7 * k) % 16) : top \in 0..15, k \in 0..15 }
    \cup { 32768 + k * 256 + (15 - k) * 16 + low :
              k \in {0, 9, 15}, low \in (0..7) \cup {14} }
    \cup { 57344 + k * 256 + low : k \in {0, 9, 15}, low \in {158, 161} }
    \cup { 61440 + k * 256 + low :
              k \in {0, 9, 15}, low \in {7, 10, 21, 24, 30, 41, 51, 85, 101} }
RomsFields == { W(word) : word \in FieldWords }

InitFields == Start(RomsFields)
SpecFields == InitFields /\ [][NextCycles]_vars

\* a caller of the public set_key_state(key: u8, state: bool) passes any key,
\* the first value past the keyboard and the one after it included
KeyArguments == 0..(NUM_KEYS + 1)
KeyCall == KeyCalls(KeyArguments, MaxKeyEvents)
NextKeyApi == Cycle(MaxCycles) \/ KeyCall
SpecKeyApi == InitKeys /\ [][NextKeyApi]_vars

\* ------------------------------------------------ the GUI application
\* char::to_digit(16) of the one-character string c; -1 is None
hex_digit(c) ==
    CASE c = "0" -> 0 [] c = "1" -> 1 [] c = "2" -> 2 [] c = "3" -> 3
      [] c = "4" -> 4 [] c = "5" -> 5 [] c = "6" -> 6 [] c = "7" -> 7
      [] c = "8" -> 8 [] c = "9" -> 9
      [] c \in {"a", "A"} -> 10 [] c \in {"b", "B"} -> 11
      [] c \in {"c", "C"} -> 12 [] c \in {"d", "D"} -> 13
      [] c \in {"e", "E"} -> 14 [] c \in {"f", "F"} -> 15
      [] OTHER -> -1

\* the digits of `str` from position `from` on, accumulated into a u8: -1 is
\* Err, of a character that is no digit or of a value past u8::MAX
RECURSIVE parse_digits(_, _, _)
parse_digits(str, from, value) ==
    IF from > Len(str) THEN value
    ELSE LET digit == hex_digit(SubSeq(str, from, from))
         IN  IF digit = -1 \/ value * 16 + digit >= U8_MOD THEN -1
             ELSE parse_digits(str, from + 1, value * 16 + digit)

\* u8::from_str_radix(str, 16): the whole string is parsed, one leading "+"
\* is accepted before the digits; -1 is Err
from_str_radix_16(str) ==
    IF Len(str) = 0 \/ str \in {"+", "-"} THEN -1
    ELSE IF SubSeq(str, 1, 1) = "+" THEN parse_digits(str, 2, 0)
    ELSE parse_digits(str, 1, 0)

\* Application::to_index(key); -1 is None
to_index(key) ==
    IF key.kind = "Character"
    THEN LET index == from_str_radix_16(key.ch)
         IN  IF index # -1
             THEN IF index < NUM_KEYS THEN index ELSE -1
             ELSE -1
    ELSE -1

\* Application::pause()
pause(a) == [a EXCEPT !.running = FALSE]

\* mutant: resume() does not look at `initialized`
resume_unconditional(a) == [a EXCEPT !.running = TRUE]

\* Application::resume()
resume(a) == IF a.initialized THEN [a EXCEPT !.running = TRUE] ELSE a

\* cpu.decrement_timers()
decrement_timers(self) == decrement_delay_timer(decrement_sound_timer(self))

\* cpu.load(&rom); cpu.reset(): as constructing a fresh engine from the ROM
load_reset(self, bytes) == new(bytes)

\* for _ in 0..n { self.cpu.cycle(); }: a panic ends the loop and the process
RECURSIVE Burst(_, _, _)
Burst(self, hist, n) ==
    IF n = 0 \/ self.panic # "" THEN [cpu |-> self, hist |-> hist]
    ELSE LET s == AfterCycle(self, hist)
         IN  Burst(s.cpu, s.hist, n - 1)

\* update() has handled one more message, of this type
Handled(type) ==
    /\ message.n < MaxMessages
    /\ message' = [n |-> message.n + 1, type |-> type]

\* the keys and keyboard events iced delivers
KeyboardKeys ==
    {[kind |-> "Character", ch |-> ch] : ch \in {"0", "f", "g", "+f", "10"}}
    \cup {[kind |-> "Named", ch |-> "Enter"]}
KeyboardEvents == {"KeyPressed", "KeyReleased", "ModifiersChanged"}

\* Message::Tick
Tick ==
    /\ panic = ""
    /\ Handled("Tick")
    /\ IF app.running
       THEN LET s == Burst(Self, Hist, CYCLES_PER_FRAME)
            IN  /\ Becomes(IF s.cpu.panic = "" THEN decrement_timers(s.cpu) ELSE s.cpu)
                /\ BecomesHist(s.hist)
       ELSE UNCHANGED <<program_counter, registers, memory, stack, stackpointer,
                        keyboard, framebuffer, rng, panic, cycles, last, since_set,
                        pending>>
    /\ UNCHANGED <<overflow_checks, rom, key_events, key_call, app>>

\* Message::KeyboardEvent(event)
KeyboardEvent ==
    /\ panic = ""
    /\ \E event \in KeyboardEvents, key \in KeyboardKeys :
          /\ Handled(event)
          /\ IF event # "ModifiersChanged" /\ app.running /\ to_index(key) # -1
             THEN /\ Becomes(set_key_state(Self, to_index(key), event = "KeyPressed"))
                  /\ key_call' = [key |-> to_index(key), state |-> event = "KeyPressed"]
                  /\ key_events' = key_events + 1
             ELSE UNCHANGED <<program_counter, registers, memory, stack, stackpointer,
                              keyboard, framebuffer, rng, panic, key_events, key_call>>
    /\ UNCHANGED <<overflow_checks, rom, cycles, last, since_set, pending, app>>

\* Message::FileSelectButtonClicked: pause, and open the file dialog
FileSelectButtonClicked ==
    /\ panic = ""
    /\ Handled("FileSelectButtonClicked")
    /\ app' = pause(app)
    /\ UNCHANGED <<program_counter, registers, memory, stack, stackpointer, keyboard,
                   framebuffer, rng, panic, overflow_checks, rom, cycles, key_events,
                   last, since_set, pending, key_call>>

\* programs the user picks: wait for a key in a loop; set the delay timer and
\* loop; return without a call
RomsGui ==
    { OpXKK(15, 0, 10) \o OpNNN(1, ROM_START_ADDRESS),
      OpXKK(6, 0, 7) \o OpXKK(15, 0, 21) \o OpNNN(1, ROM_START_ADDRESS + 4),
      W(238) }
\* the files the dialog hands over: whether the path is valid UTF-8, whether
\* the file can be read, and the bytes in it, which may be none
Files ==
    {[utf8 |-> TRUE, readable |-> TRUE, bytes |-> bytes] : bytes \in RomsGui \cup {<<>>}}
    \cup {[utf8 |-> FALSE, readable |-> TRUE, bytes |-> W(238)],
          [utf8 |-> TRUE, readable |-> FALSE, bytes |-> W(238)]}

\* RomBuffer::new(file.path().to_str().unwrap()): the panic of the unwrap of
\* to_str() on a path that is not UTF-8, or of the unwrap of fs::read() on a
\* file that cannot be read; "" when the buffer is made
RomBufferPanic(file) ==
    IF ~file.utf8 THEN "called Option::unwrap() on a None value"
    ELSE IF ~file.readable THEN "called Result::unwrap() on an Err value"
    ELSE ""

\* Message::FileSelected(Some(file))
FileSelectedSome ==
    /\ panic = ""
    /\ Handled("FileSelected(Some)")
    /\ \E file \in Files :
          IF RomBufferPanic(file) # ""
          THEN /\ panic' = RomBufferPanic(file)
               /\ UNCHANGED <<program_counter, registers, memory, stack, stackpointer,
                              keyboard, framebuffer, rng, rom, since_set, pending, app>>
          ELSE LET loaded == load_reset(Self, file.bytes)
               IN  /\ rom' = file.bytes
                   /\ Becomes(loaded)
                   /\ app' = IF loaded.panic # "" THEN app
                             ELSE resume([app EXCEPT !.initialized = TRUE])
                   /\ since_set' = [delay |-> NeverSet, sound |-> NeverSet]
                   /\ pending' = <<>>
    /\ UNCHANGED <<overflow_checks, cycles, key_events, last, key_call>>

\* Message::FileSelected(None)
FileSelectedNone ==
    /\ panic = ""
    /\ Handled("FileSelected(None)")
    /\ app' = resume(app)
    /\ UNCHANGED <<program_counter, registers, memory, stack, stackpointer, keyboard,
                   framebuffer, rng, panic, overflow_checks, rom, cycles, key_events,
                   last, since_set, pending, key_call>>

\* Message::PauseRequested
PauseRequested ==
    /\ panic = ""
    /\ Handled("PauseRequested")
    /\ app' = pause(app)
    /\ UNCHANGED <<program_counter, registers, memory, stack, stackpointer, keyboard,
                   framebuffer, rng, panic, overflow_checks, rom, cycles, key_events,
                   last, since_set, pending, key_call>>

\* Message::ResumeRequested
ResumeRequested ==
    /\ panic = ""
    /\ Handled("ResumeRequested")
    /\ app' = resume(app)
    /\ UNCHANGED <<program_counter, registers, memory, stack, stackpointer, keyboard,
                   framebuffer, rng, panic, overflow_checks, rom, cycles, key_events,
                   last, since_set, pending, key_call>>

\* Application::update(message), for the messages iced queues
update ==
    \/ Tick
    \/ KeyboardEvent
    \/ FileSelectButtonClicked
    \/ FileSelectedSome
    \/ FileSelectedNone
    \/ PauseRequested
    \/ ResumeRequested

\* Application::default(): the Cpu is constructed with no ROM loaded
InitGui ==
    /\ Constructed({<<>>})
    /\ app = ApplicationDefault
SpecGui == InitGui /\ [][update]_vars

\* ------------------------------------------------------- claim vocabulary
\* the word at PC, as the claims state it
WordAtPC == memory[program_counter] * 256 + memory[program_counter + 1]
\* this step is a cycle() call that returned
CycleReturned == cycles' = cycles + 1 /\ panic' = ""
\* the operand fields of an opcode
FieldX(word) == (word \div 256) % 16
FieldY(word) == (word \div 16) % 16
FieldKK(word) == word % 256
FieldNNN(word) == word % 4096
IsFX(word, low) == word \div 4096 = 15 /\ word % 256 = low
Decremented(t) == IF t > 0 THEN t - 1 ELSE 0

\* C1: every cycle fetches the big-endian word at PC, advances PC by 2,
\* executes, and only then decrements the timers: a timer set to v > 0 ends
\* the cycle at v - 1, and SetXToDelayTimer copies the value the timer had
\* before the cycle's decrement.
C1_Step ==
    CycleReturned =>
        LET word == WordAtPC
            x == FieldX(word)
            vx == registers.register[x]
        IN  /\ last'.opcode = word
            /\ last'.at = program_counter
            /\ IsFX(word, 21) =>
                  /\ registers'.delay_timer = Decremented(vx)
                  /\ vx > 0 => registers'.delay_timer = vx - 1
                  /\ registers'.sound_timer = Decremented(registers.sound_timer)
                  /\ program_counter' = program_counter + 2
            /\ IsFX(word, 24) =>
                  /\ registers'.sound_timer = Decremented(vx)
                  /\ vx > 0 => registers'.sound_timer = vx - 1
                  /\ registers'.delay_timer = Decremented(registers.delay_timer)
                  /\ program_counter' = program_counter + 2
            /\ IsFX(word, 7) =>
                  /\ registers'.register[x] = registers.delay_timer
                  /\ registers'.delay_timer = Decremented(registers.delay_timer)
                  /\ program_counter' = program_counter + 2
C1_CycleOrder == [][C1_Step]_vars

\* a SetXToDelayTimer has just copied a nonzero timer, which then ticked
C1_Witness ==
    /\ panic = ""
    /\ last.opcode # -1
    /\ IsFX(last.opcode, 7)
    /\ registers.register[FieldX(last.opcode)] >= 2
    /\ registers.delay_timer = registers.register[FieldX(last.opcode)] - 1
    /\ since_set.delay.n = 3

\* C9: both timers are never negative; a cycle that executes no timer-set
\* instruction for a timer takes it from t to t - 1 when t > 0 and leaves it
\* at 0 otherwise; a timer set to v is 0 once v cycles have run (the setting
\* cycle included) and stays 0.
C9_Range ==
    /\ registers.delay_timer \in 0..255
    /\ registers.sound_timer \in 0..255
C9_Countdown ==
    /\ since_set.delay.v >= since_set.delay.n =>
          registers.delay_timer = since_set.delay.v - since_set.delay.n
    /\ since_set.delay.v <= since_set.delay.n => registers.delay_timer = 0
    /\ since_set.sound.v >= since_set.sound.n =>
          registers.sound_timer = since_set.sound.v - since_set.sound.n
    /\ since_set.sound.v <= since_set.sound.n => registers.sound_timer = 0
C9_Step ==
    CycleReturned =>
        /\ ~IsFX(WordAtPC, 21) =>
              registers'.delay_timer = Decremented(registers.delay_timer)
        /\ ~IsFX(WordAtPC, 24) =>
              registers'.sound_timer = Decremented(registers.sound_timer)
C9_Timers == [](panic = "" => C9_Range /\ C9_Countdown) /\ [][C9_Step]_vars

\* a timer set to v >= 2 has reached 0 and stayed there for a further cycle
C9_Witness ==
    /\ panic = ""
    /\ since_set.delay.v >= 2
    /\ since_set.delay.n = since_set.delay.v + 1
    /\ registers.delay_timer = 0

\* C7: CallSubroutine nnn fetched at address a with stack pointer p < 16
\* stores a + 2 in stack[p], sets the stack pointer to p + 1 and PC to nnn,
\* and changes no other stack entry.
C7_Step ==
    (cycles' = cycles + 1 /\ last'.opcode # -1 /\ last'.opcode \div 4096 = 2
        /\ stackpointer < STACK_SIZE) =>
        /\ panic' = ""
        /\ stack' = [stack EXCEPT ![stackpointer] = program_counter + 2]
        /\ stackpointer' = stackpointer + 1
        /\ program_counter' = FieldNNN(WordAtPC)
C7_Call == [][C7_Step]_vars

\* a call made at depth 1 from an address past the start of the ROM
C7_Witness ==
    /\ panic = ""
    /\ last.opcode # -1
    /\ last.opcode \div 4096 = 2
    /\ last.sp = 1
    /\ last.at > ROM_START_ADDRESS
    /\ stackpointer = 2
    /\ stack[1] = last.at + 2
    /\ program_counter = FieldNNN(last.opcode)

\* C8: when the target of a CallSubroutine fetched at address a holds a
\* ReturnFromSubroutine, the call's cycle followed by the return's cycle
\* leaves PC = a + 2 and the stack pointer at its value before the call.
CalledAReturn ==
    /\ last.opcode # -1
    /\ last.opcode \div 4096 = 2
    /\ last.returned = "()"
    /\ program_counter = FieldNNN(last.opcode)
    /\ program_counter + 1 < RAM_SIZE
    /\ WordAtPC = 238
C8_Step ==
    (cycles' = cycles + 1 /\ CalledAReturn) =>
        /\ panic' = ""
        /\ program_counter' = last.at + 2
        /\ stackpointer' = last.sp
C8_CallReturn == [][C8_Step]_vars

\* a return has just undone a call made at depth 1
C8_Witness ==
    /\ panic = ""
    /\ last.opcode = 238
    /\ last.sp = 2
    /\ stackpointer = 1
    /\ program_counter = stack[1]
    /\ memory[program_counter - 2] \div 16 = 2

\* C2: a ReturnFromSubroutine executed with stack pointer 0, and a
\* CallSubroutine executed with stack pointer 16, make cycle() return a
\* StackFault value: the process lives on and the stack pointer is as before.
StackFaultCase ==
    /\ last.opcode # -1
    /\ \/ last.opcode = 238 /\ last.sp = 0
       \/ last.opcode \div 4096 = 2 /\ last.sp = STACK_SIZE
C2_StackFaultReturned ==
    StackFaultCase =>
        /\ panic = ""
        /\ last.returned = "StackFault"
        /\ stackpointer = last.sp

\* C3: an opcode of group 8, E or F that is mapped to no instruction makes
\* cycle() return a DecodeError value, and the process lives on.
Unmapped(word) ==
    \/ word \div 4096 = 8 /\ word % 16 \notin (0..7) \cup {14}
    \/ word \div 4096 = 14 /\ word % 256 \notin {158, 161}
    \/ word \div 4096 = 15 /\ word % 256 \notin {7, 10, 21, 24, 30, 41, 51, 85, 101}
C3_DecodeErrorReturned ==
    (last.opcode # -1 /\ Unmapped(last.opcode)) =>
        /\ panic = ""
        /\ last.returned = "DecodeError"

\* C4: LoadBCDOfX with I + 2 >= 4096, and Write0ThroughX or Load0ThroughX
\* with I + x >= 4096, make cycle() return an AddressFault value, and the
\* process lives on.
AddressFaultCase ==
    /\ last.opcode # -1
    /\ \/ IsFX(last.opcode, 51) /\ registers.vindex + 2 >= RAM_SIZE
       \/ IsFX(last.opcode, 85) /\ registers.vindex + FieldX(last.opcode) >= RAM_SIZE
       \/ IsFX(last.opcode, 101) /\ registers.vindex + FieldX(last.opcode) >= RAM_SIZE
C4_AddressFaultReturned ==
    AddressFaultCase =>
        /\ panic = ""
        /\ last.returned = "AddressFault"

\* C5 as stated: whatever the program, memory 0x000..0x04F is the font table.
FontIntact == \A a \in 0..(Len(fontset) - 1) : memory[a] = fontset[a + 1]
C5_FontNeverOverwritten == FontIntact

\* C5 as amended: a step changes a byte of memory 0x000..0x04F only when it is
\* a LoadBCDOfX or a Write0ThroughX executed with I <= 0x4F; so the font table
\* is intact after any run in which those two execute only with I >= 0x50.
WritesIntoFont ==
    /\ cycles' = cycles + 1
    /\ last'.opcode # -1
    /\ IsFX(last'.opcode, 51) \/ IsFX(last'.opcode, 85)
    /\ registers.vindex < Len(fontset)
C5_Step ==
    ~WritesIntoFont => \A a \in 0..(Len(fontset) - 1) : memory'[a] = memory[a]
C5_FontOverwrittenOnlyBelow0x50 == [][C5_Step]_vars

\* a Write0ThroughX has stored V0..V2 at 0x50..0x52, right above the font table
C5_Witness ==
    /\ panic = ""
    /\ last.opcode # -1
    /\ IsFX(last.opcode, 85)
    /\ FieldX(last.opcode) = 2
    /\ registers.vindex = Len(fontset)
    /\ memory[Len(fontset)] = 17
    /\ memory[Len(fontset) + 2] = 51
    /\ FontIntact

\* C6: right after construction from ROM bytes b, PC = 0x200, the V registers,
\* I, the timers, the stack pointer and the stack are 0, no key is pressed,
\* memory[0x200 + i] = b[i], memory 0x000..0x04F is the font table and every
\* other byte is 0.
JustConstructed == cycles = 0 /\ key_events = 0 /\ panic = ""
C6_Constructed ==
    JustConstructed =>
        /\ program_counter = 512
        /\ \A r \in 0..15 : registers.register[r] = 0
        /\ registers.vindex = 0
        /\ registers.delay_timer = 0
        /\ registers.sound_timer = 0
        /\ stackpointer = 0
        /\ \A e \in 0..15 : stack[e] = 0
        /\ \A k \in 0..15 : keyboard[k] = FALSE
        /\ DOMAIN memory = 0..4095
        /\ \A a \in 0..4095 :
              memory[a] = IF a < 80 THEN fontset[a + 1]
                          ELSE IF a >= 512 /\ a < 512 + Len(rom) THEN rom[a - 512 + 1]
                          ELSE 0

\* an engine constructed from the largest ROM that fits
C6_Witness ==
    /\ JustConstructed
    /\ Len(rom) = 3584
    /\ memory[4095] = rom[3584]
    /\ memory[4095] # 0
    /\ memory[79] = 128

\* C10: AddYToX with x # 0xF leaves Vx = (Vx + Vy) mod 256 and VF = 1 if the
\* sum exceeds 255, else VF = 0.
C10_Step ==
    (cycles' = cycles + 1 /\ last'.opcode # -1 /\ last'.opcode \div 4096 = 8
        /\ last'.opcode % 16 = 4 /\ FieldX(last'.opcode) # 15) =>
        LET x == FieldX(last'.opcode)
            a == registers.register[x]
            b == registers.register[FieldY(last'.opcode)]
        IN  /\ panic' = ""
            /\ registers'.register[x] = (a + b) % 256
            /\ registers'.register[15] = IF a + b > 255 THEN 1 ELSE 0
C10_AddYToX == [][C10_Step]_vars

\* 254 + 255 has just been added: Vx = 253 with the carry in VF
C10_Witness ==
    /\ panic = ""
    /\ last.opcode # -1
    /\ last.opcode \div 4096 = 8
    /\ last.opcode % 16 = 4
    /\ FieldX(last.opcode) = 0
    /\ FieldY(last.opcode) = 1
    /\ registers.register[1] = 255
    /\ registers.register[0] = 253
    /\ registers.register[15] = 1

\* a returning cycle that executed the 8XYn instruction with low nibble n
Executes8(n) ==
    /\ cycles' = cycles + 1
    /\ last'.opcode # -1
    /\ last'.opcode \div 4096 = 8
    /\ last'.opcode % 16 = n
\* the last cycle executed the 8XYn instruction with low nibble n on (x, y)
Executed8(n, x, y) ==
    /\ panic = ""
    /\ last.opcode = 8 * 4096 + x * 256 + y * 16 + n

\* C11: for x # 0xF, SubYFromX leaves Vx = (Vx - Vy) mod 256 with VF = 1 iff
\* Vx >= Vy, and SubXFromY leaves Vx = (Vy - Vx) mod 256 with VF = 1 iff
\* Vy >= Vx (old values); VF is 0 otherwise.
C11_Step ==
    \A n \in {5, 7} :
        (Executes8(n) /\ FieldX(last'.opcode) # 15) =>
            LET x == FieldX(last'.opcode)
                vx == registers.register[x]
                vy == registers.register[FieldY(last'.opcode)]
                minuend == IF n = 5 THEN vx ELSE vy
                subtrahend == IF n = 5 THEN vy ELSE vx
            IN  /\ panic' = ""
                /\ registers'.register[x] = (minuend - subtrahend + 256) % 256
                /\ registers'.register[15] = IF minuend >= subtrahend THEN 1 ELSE 0
C11_Subtract == [][C11_Step]_vars

\* 0 - 1 by SubYFromX left 255 with VF = 0
C11_Witness ==
    /\ Executed8(5, 0, 1)
    /\ last.registers.register[0] = 0
    /\ last.registers.register[1] = 1
    /\ registers.register[0] = 255
    /\ registers.register[15] = 0

\* C12 as stated: for x # 0xF and v = Vx, ShiftXRight1 leaves VF = v mod 2
\* and Vx = v div 2, ShiftXLeft1 leaves VF = v div 128 and
\* Vx = (2 * v) mod 256, and Vy is not changed, whatever y is.
C12_StepVyKept ==
    \A n \in {6, 14} :
        (Executes8(n) /\ FieldX(last'.opcode) # 15) =>
            LET x == FieldX(last'.opcode)
                y == FieldY(last'.opcode)
                v == registers.register[x]
            IN  /\ panic' = ""
                /\ registers'.register[x] = IF n = 6 THEN v \div 2 ELSE (2 * v) % 256
                /\ registers'.register[15] = IF n = 6 THEN v % 2 ELSE v \div 128
                /\ registers'.register[y] = registers.register[y]
C12_ShiftVyKept == [][C12_StepVyKept]_vars

\* C12 as amended: for x # 0xF and v = Vx, ShiftXRight1 leaves VF = v mod 2
\* and Vx = v div 2, ShiftXLeft1 leaves VF = v div 128 and
\* Vx = (2 * v) mod 256, whatever Vy holds; every register other than Vx and
\* VF keeps its value, so Vy is unchanged when y is neither x nor 0xF.
C12_Step ==
    \A n \in {6, 14} :
        (Executes8(n) /\ FieldX(last'.opcode) # 15) =>
            LET x == FieldX(last'.opcode)
                v == registers.register[x]
                shifted == IF n = 6 THEN v \div 2 ELSE (2 * v) % 256
                flag == IF n = 6 THEN v % 2 ELSE v \div 128
            IN  /\ panic' = ""
                /\ registers'.register =
                      [registers.register EXCEPT ![x] = shifted, ![15] = flag]
C12_Shift == [][C12_Step]_vars

\* 129 shifted left: Vx = 2, VF = 1, and Vy = 127 untouched
C12_Witness ==
    /\ Executed8(14, 0, 1)
    /\ last.registers.register[0] = 129
    /\ last.registers.register[1] = 127
    /\ registers.register[0] = 2
    /\ registers.register[1] = 127
    /\ registers.register[15] = 1

\* the flag an 8XYn instruction computes from its operands vx and vy
Flag8(n, vx, vy) ==
    CASE n = 4 -> IF vx + vy > 255 THEN 1 ELSE 0
      [] n = 5 -> IF vx >= vy THEN 1 ELSE 0
      [] n = 6 -> vx % 2
      [] n = 7 -> IF vy >= vx THEN 1 ELSE 0
      [] n = 14 -> vx \div 128

\* C13: with x = 0xF, AddYToX, SubYFromX, SubXFromY, ShiftXRight1 and
\* ShiftXLeft1 leave VF equal to the flag computed from the operands the
\* instruction started with, not to the sum, difference or shifted value.
C13_Step ==
    \A n \in AluLowNibbles :
        (Executes8(n) /\ FieldX(last'.opcode) = 15) =>
            LET vx == registers.register[15]
                vy == registers.register[FieldY(last'.opcode)]
            IN  /\ panic' = ""
                /\ registers'.register[15] = Flag8(n, vx, vy)
C13_FlagLast == [][C13_Step]_vars

\* SubXFromY with x = 0xF: 254 - 127 = 127 was computed, yet VF holds the flag 1
C13_Witness ==
    /\ Executed8(7, 15, 2)
    /\ last.registers.register[15] = 127
    /\ last.registers.register[2] = 254
    /\ registers.register[15] = 1

\* a cycle that executed Display
ExecutesDisplay ==
    /\ cycles' = cycles + 1
    /\ last'.opcode # -1
    /\ last'.opcode \div 4096 = 13
\* bit c (from the left) of sprite row r of the sprite at I
SpriteBit(r, c) == (memory[registers.vindex + r] \div Pow2(7 - c)) % 2 = 1
\* the sprite row and column that land on cell (row, col) for the opcode at PC
SpriteRowOf(row) == row - (registers.register[FieldY(WordAtPC)] % 32)
SpriteColOf(col) == col - (registers.register[FieldX(WordAtPC)] % 64)
\* cell (row, col) is drawn when the first `rows` sprite rows are drawn
DrawnCell(row, col, rows) ==
    /\ SpriteRowOf(row) \in 0..(rows - 1)
    /\ SpriteColOf(col) \in 0..7
\* the framebuffer and VF after drawing the first `rows` sprite rows
DrawsRows(rows) ==
    /\ \A row \in 0..31, col \in 0..63 :
          framebuffer'[row][col] =
            IF DrawnCell(row, col, rows)
            THEN framebuffer[row][col] # SpriteBit(SpriteRowOf(row), SpriteColOf(col))
            ELSE framebuffer[row][col]
    /\ panic' = ""
    /\ registers'.register[15] =
          IF \E row \in 0..31, col \in 0..63 :
                /\ DrawnCell(row, col, rows)
                /\ framebuffer[row][col]
                /\ SpriteBit(SpriteRowOf(row), SpriteColOf(col))
          THEN 1 ELSE 0

\* C14: Display x,y,n XORs sprite bit (r, c) into cell (row (Vy mod 32) + r,
\* column (Vx mod 64) + c) only when that row is < 32 and that column < 64;
\* cells that would fall outside are skipped, never wrapped; every other cell
\* is unchanged; VF = 1 iff some drawn cell was lit under a set sprite bit.
\* (Sprites lying wholly inside memory; C16 is the sprite cut by its end.)
C14_Step ==
    LET n == WordAtPC % 16
    IN  (ExecutesDisplay /\ registers.vindex + n <= RAM_SIZE) => DrawsRows(n)
C14_Display == [][C14_Step]_vars

\* the glyph "1" drawn at column 62, row 29 over the glyph "0": its rows 29..31
\* reach columns 62 and 63 only, the set bit of column 64 does not appear at
\* column 0, the lit cell (30, 63) is turned off and VF reports the hit
C14_Witness ==
    /\ panic = ""
    /\ last.opcode = 13 * 4096 + 1 * 16 + 5
    /\ last.registers.register[0] = 62
    /\ last.registers.register[1] = 29
    /\ last.registers.vindex = 5
    /\ last.framebuffer[30][63]
    /\ ~framebuffer[30][63]
    /\ framebuffer[29][62]
    /\ \A row \in 0..31 : ~framebuffer[row][0]
    /\ registers.register[15] = 1

\* C15: executing the same Display twice, with I, Vx, Vy and the sprite bytes
\* unchanged between the two draws, leaves every framebuffer cell as it was
\* before the first draw.
C15_Step ==
    (/\ ExecutesDisplay
     /\ panic' = ""
     /\ last.opcode = WordAtPC
     /\ last.returned = "()"
     /\ registers.vindex = last.registers.vindex
     /\ registers.register[FieldX(WordAtPC)] = last.registers.register[FieldX(WordAtPC)]
     /\ registers.register[FieldY(WordAtPC)] = last.registers.register[FieldY(WordAtPC)])
    => framebuffer' = last.framebuffer
C15_DrawTwice == [][C15_Step]_vars

\* the glyph "1" was drawn twice at (2, 0) over the glyph "0" at (0, 0): the
\* second draw started from a framebuffer the first had changed, and the
\* glyph "0" is back
C15_Witness ==
    /\ panic = ""
    /\ cycles = 8
    /\ last.opcode = 13 * 4096 + 1 * 16 + 5
    /\ last.registers.register[0] = 2
    /\ last.registers.register[1] = 0
    /\ last.registers.vindex = 5
    /\ ~last.framebuffer[1][3]
    /\ last.framebuffer[1][4]
    /\ framebuffer[1][0]
    /\ framebuffer[1][3]
    /\ ~framebuffer[1][4]

\* C16: Display reads sprite row r only when I + r < 4096; at the first row
\* with I + r >= 4096 it stops, keeping the rows drawn and the VF accumulated
\* so far, and the cycle returns without reading outside the 4096 bytes.
C16_Step ==
    LET n == WordAtPC % 16
        rows == IF registers.vindex >= RAM_SIZE THEN 0 ELSE RAM_SIZE - registers.vindex
    IN  (ExecutesDisplay /\ registers.vindex + n > RAM_SIZE) => DrawsRows(rows)
C16_DisplayAtEndOfRam == [][C16_Step]_vars

\* four rows asked for at I = 4094: the bytes 255 and 129 at 4094 and 4095 were
\* drawn on rows 3 and 4 over the glyph "F", rows 5 and 6 were not drawn, and
\* VF holds the collision of the two rows drawn
C16_Witness ==
    /\ panic = ""
    /\ last.opcode = 13 * 4096 + 2 * 256 + 2 * 16 + 4
    /\ last.registers.vindex = RAM_SIZE - 2
    /\ memory[RAM_SIZE - 2] = 255
    /\ memory[RAM_SIZE - 1] = 129
    /\ ~framebuffer[3][3]
    /\ framebuffer[3][7]
    /\ framebuffer[4][10]
    /\ framebuffer[5][3]
    /\ ~framebuffer[5][7]
    /\ registers.register[15] = 1

\* C17: ClearScreen sets all 32x64 framebuffer cells to false whatever they
\* held, so a second ClearScreen leaves the same all-false framebuffer; it
\* changes no V register, I, memory byte, stack entry or the stack pointer.
C17_Step ==
    (cycles' = cycles + 1 /\ last'.opcode = 224) =>
        /\ panic' = ""
        /\ \A row \in 0..31, col \in 0..63 : framebuffer'[row][col] = FALSE
        /\ registers'.register = registers.register
        /\ registers'.vindex = registers.vindex
        /\ memory' = memory
        /\ stack' = stack
        /\ stackpointer' = stackpointer
        /\ program_counter' = program_counter + 2
C17_ClearScreen == [][C17_Step]_vars

\* a framebuffer with lit cells outside row 0 was cleared by ClearScreen
C17_Witness ==
    /\ panic = ""
    /\ last.opcode = 224
    /\ \E row \in 1..31, col \in 0..63 : last.framebuffer[row][col]
    /\ \A row \in 0..31, col \in 0..63 : ~framebuffer[row][col]
    /\ registers.register[0] = 2

\* the lowest pressed key of a keyboard, as get_pressed_key reports it
LowestPressed(keys) ==
    CHOOSE k \in 0..15 : keys[k] /\ \A j \in 0..(k - 1) : ~keys[j]
\* the last cycle executed WaitForKeyPressed
WaitedForKey == last.opcode # -1 /\ IsFX(last.opcode, 10)

\* C18: with at least one key pressed, a cycle executing WaitForKeyPressed x
\* stores the lowest pressed key index in Vx and leaves PC at the next
\* instruction.
C18_KeyStored ==
    (WaitedForKey /\ \E k \in 0..15 : last.keyboard[k]) =>
        /\ last.returned = "()"
        /\ program_counter = last.at + 2
        /\ registers.register[FieldX(last.opcode)] = LowestPressed(last.keyboard)

\* C19: while no key is pressed every cycle at a WaitForKeyPressed located at
\* address a returns with PC = a, so the instruction is executed again by the
\* next cycle; a cycle executed there with a key pressed ends with PC = a + 2.
C19_Step ==
    (cycles' = cycles + 1 /\ last'.opcode # -1 /\ IsFX(last'.opcode, 10)) =>
        /\ panic' = ""
        /\ last'.at = program_counter
        /\ program_counter' =
              IF \A k \in 0..15 : ~keyboard[k]
              THEN program_counter
              ELSE program_counter + 2
C19_WaitForKey == [][C19_Step]_vars

\* the instruction at 0x202 was met by the second cycle and executed by every
\* cycle since; the fourth or a later one found a key pressed and moved on
C19_Witness ==
    /\ panic = ""
    /\ WaitedForKey
    /\ last.at = ROM_START_ADDRESS + 2
    /\ cycles >= 4
    /\ \E k \in 0..15 : last.keyboard[k]
    /\ program_counter = ROM_START_ADDRESS + 4

\* the last cycle executed SkipIfVxPressed or SkipIfVxNotPressed
SkippedOnKey ==
    /\ last.opcode # -1
    /\ last.opcode \div 4096 = 14
    /\ last.opcode % 256 \in {158, 161}

\* C20: SkipIfVxPressed x adds 2 to PC iff the key whose index is the value of
\* Vx is pressed, SkipIfVxNotPressed x iff that key is not pressed: the key
\* consulted is keyboard[Vx], for Vx in 0..15.
C20_KeyOfVx ==
    (SkippedOnKey /\ last.registers.register[FieldX(last.opcode)] \in 0..15) =>
        LET vx == last.registers.register[FieldX(last.opcode)]
            skips == IF last.opcode % 256 = 158
                     THEN last.keyboard[vx]
                     ELSE ~last.keyboard[vx]
        IN  /\ last.returned = "()"
            /\ program_counter = last.at + 2 + (IF skips THEN 2 ELSE 0)

\* C21: JumpToAddressPlusV0 nnn sets PC to nnn + V0, using all eight bits of
\* V0, for every V0 in 0..255.
C21_JumpFullV0 ==
    (last.opcode # -1 /\ last.opcode \div 4096 = 11) =>
        /\ last.returned = "()"
        /\ program_counter = FieldNNN(last.opcode) + last.registers.register[0]

\* C22: SetIToSpriteX x sets I to Vx * 5 for every Vx in 0..255, without
\* overflow, truncation or fault, and changes no V register.
C22_SpriteAddress ==
    (last.opcode # -1 /\ IsFX(last.opcode, 41)) =>
        /\ last.returned = "()"
        /\ registers.vindex = 5 * last.registers.register[FieldX(last.opcode)]
        /\ registers.register = last.registers.register

\* C23: every opcode in 0x0000..0x0FFF other than exactly 0x00E0 and 0x00EE
\* decodes to Noop; a cycle executing it returns and changes nothing except
\* PC (+2) and the timer decrement.
C23_GroupZeroIsNoop ==
    (last.opcode \in (0..4095) \ {224, 238}) =>
        /\ last.returned = "()"
        /\ InstructionNew(last.opcode).op = "Noop"
        /\ program_counter = last.at + 2
        /\ stackpointer = last.sp
        /\ registers.register = last.registers.register
        /\ registers.vindex = last.registers.vindex
        /\ framebuffer = last.framebuffer

\* the condition a conditional skip tests, from its opcode and the registers
SkipCondition(word) ==
    LET vx == registers.register[FieldX(word)]
        vy == registers.register[FieldY(word)]
    IN  CASE word \div 4096 = 3 -> vx = FieldKK(word)
          [] word \div 4096 = 4 -> vx # FieldKK(word)
          [] word \div 4096 = 5 -> vx = vy
          [] word \div 4096 = 9 -> vx # vy
\* the word is 3XKK, 4XKK, 5XY0 or 9XY0
IsConditionalSkip(word) ==
    \/ word \div 4096 \in {3, 4}
    \/ word \div 4096 \in {5, 9} /\ word % 16 = 0

\* C24: a conditional skip fetched at address a (3XKK: Vx = kk, 4XKK: Vx # kk,
\* 5XY0: Vx = Vy, 9XY0: Vx # Vy) ends its cycle with PC = a + 4 if the
\* condition holds and PC = a + 2 otherwise; no V register, I, memory byte or
\* stack entry changes.
C24_Step ==
    (cycles' = cycles + 1 /\ last'.opcode # -1 /\ IsConditionalSkip(last'.opcode)) =>
        /\ panic' = ""
        /\ last'.at = program_counter
        /\ program_counter' =
              program_counter + (IF SkipCondition(last'.opcode) THEN 4 ELSE 2)
        /\ registers'.register = registers.register
        /\ registers'.vindex = registers.vindex
        /\ memory' = memory
        /\ stack' = stack
        /\ stackpointer' = stackpointer
C24_Skips == [][C24_Step]_vars

\* SkipNextInstructionIfXIsNotKK with V0 = 7 and kk = 255 at 0x204: PC = 0x208
C24_Witness ==
    /\ panic = ""
    /\ last.opcode = 4 * 4096 + 255
    /\ last.at = ROM_START_ADDRESS + 4
    /\ registers.register[0] = 7
    /\ program_counter = ROM_START_ADDRESS + 8

\* a cycle that executed the FX instruction with low byte `low`
ExecutesFX(low) ==
    /\ cycles' = cycles + 1
    /\ last'.opcode # -1
    /\ IsFX(last'.opcode, low)

\* C25: LoadBCDOfX with v = Vx and I <= 4093 stores d0 = v div 100 at
\* memory[I], d1 = (v div 10) mod 10 at memory[I+1] and d2 = v mod 10 at
\* memory[I+2], so 100*d0 + 10*d1 + d2 = v with each digit in 0..9; I, the V
\* registers and every other memory byte are unchanged.
C25_Step ==
    (ExecutesFX(51) /\ registers.vindex <= RAM_SIZE - 3) =>
        LET v == registers.register[FieldX(last'.opcode)]
            I == registers.vindex
        IN  /\ panic' = ""
            /\ memory'[I] = v \div 100
            /\ memory'[I + 1] = (v \div 10) % 10
            /\ memory'[I + 2] = v % 10
            /\ 100 * memory'[I] + 10 * memory'[I + 1] + memory'[I + 2] = v
            /\ \A k \in 0..2 : memory'[I + k] \in 0..9
            /\ \A a \in (0..(RAM_SIZE - 1)) \ (I..(I + 2)) : memory'[a] = memory[a]
            /\ registers'.vindex = I
            /\ registers'.register = registers.register
C25_Bcd == [][C25_Step]_vars

\* 255 stored as 2, 5, 5 in the last three bytes of memory
C25_Witness ==
    /\ panic = ""
    /\ last.opcode # -1
    /\ IsFX(last.opcode, 51)
    /\ last.registers.register[3] = 255
    /\ last.registers.vindex = RAM_SIZE - 3
    /\ memory[RAM_SIZE - 3] = 2
    /\ memory[RAM_SIZE - 2] = 5
    /\ memory[RAM_SIZE - 1] = 5

\* C26: Write0ThroughX x with I + x <= 4095 leaves memory[I + r] = Vr for
\* every r in 0..x, leaves I and the V registers unchanged, and changes no
\* memory byte outside I..I+x.
C26_Step ==
    (ExecutesFX(85) /\ registers.vindex + FieldX(last'.opcode) <= RAM_SIZE - 1) =>
        LET x == FieldX(last'.opcode)
            I == registers.vindex
        IN  /\ panic' = ""
            /\ \A r \in 0..x : memory'[I + r] = registers.register[r]
            /\ \A a \in (0..(RAM_SIZE - 1)) \ (I..(I + x)) : memory'[a] = memory[a]
            /\ registers'.vindex = I
            /\ registers'.register = registers.register
C26_Write0ThroughX == [][C26_Step]_vars

\* V0..VF stored at 4080..4095: the first and the last byte of the block
C26_Witness ==
    /\ panic = ""
    /\ last.opcode # -1
    /\ IsFX(last.opcode, 85)
    /\ FieldX(last.opcode) = 15
    /\ registers.vindex = RAM_SIZE - 16
    /\ registers.register[15] = BlockData[16]
    /\ memory[RAM_SIZE - 16] = BlockData[1]
    /\ memory[RAM_SIZE - 1] = BlockData[16]
    /\ memory[RAM_SIZE - 17] = 0

\* C27: Load0ThroughX x with I + x <= 4095 leaves Vr = memory[I + r] for every
\* r in 0..x, and leaves V(x+1)..VF, I and all memory unchanged.
C27_Step ==
    (ExecutesFX(101) /\ registers.vindex + FieldX(last'.opcode) <= RAM_SIZE - 1) =>
        LET x == FieldX(last'.opcode)
            I == registers.vindex
        IN  /\ panic' = ""
            /\ \A r \in 0..x : registers'.register[r] = memory[I + r]
            /\ \A r \in (x + 1)..15 : registers'.register[r] = registers.register[r]
            /\ registers'.vindex = I
            /\ memory' = memory
C27_Load0ThroughX == [][C27_Step]_vars

\* V0..V2 loaded from the glyph "1" at I = 5 while V3 keeps the byte it held
C27_Witness ==
    /\ panic = ""
    /\ last.opcode # -1
    /\ IsFX(last.opcode, 101)
    /\ FieldX(last.opcode) = 2
    /\ registers.vindex = 5
    /\ last.registers.register[2] = BlockData[3]
    /\ registers.register[0] = 32
    /\ registers.register[1] = 96
    /\ registers.register[2] = 32
    /\ registers.register[3] = BlockData[4]

\* a cycle that executed an opcode of the given group (top nibble)
ExecutesGroup(group) ==
    /\ cycles' = cycles + 1
    /\ last'.opcode # -1
    /\ last'.opcode \div 4096 = group

\* C28: AddToRegisterX x,kk leaves Vx = (Vx + kk) mod 256 and, for x # 0xF,
\* leaves VF (as every other V register) unchanged even when the sum wraps.
C28_Step ==
    ExecutesGroup(7) =>
        LET x == FieldX(last'.opcode)
            kk == FieldKK(last'.opcode)
        IN  /\ panic' = ""
            /\ registers'.register =
                  [registers.register EXCEPT ![x] = (registers.register[x] + kk) % 256]
C28_AddToX == [][C28_Step]_vars

\* 255 + 255 was added in V0: V0 = 254 and VF still holds 77
C28_Witness ==
    /\ panic = ""
    /\ last.opcode = 7 * 4096 + 255
    /\ last.registers.register[0] = 255
    /\ last.registers.register[15] = 77
    /\ registers.register[0] = 254
    /\ registers.register[15] = 77

\* C29: a cycle executing LoadRegisterX x,kk fetched at address a leaves
\* Vx = kk and PC = a + 2, with every other V register, I, memory and the
\* stack unchanged.
C29_Step ==
    ExecutesGroup(6) =>
        LET x == FieldX(last'.opcode)
            kk == FieldKK(last'.opcode)
        IN  /\ panic' = ""
            /\ last'.at = program_counter
            /\ program_counter' = program_counter + 2
            /\ registers'.register = [registers.register EXCEPT ![x] = kk]
            /\ registers'.vindex = registers.vindex
            /\ memory' = memory
            /\ stack' = stack
            /\ stackpointer' = stackpointer
C29_LoadX == [][C29_Step]_vars

\* VF held 77 and was loaded with 129 by the instruction at 0x202
C29_Witness ==
    /\ panic = ""
    /\ last.opcode = 6 * 4096 + 15 * 256 + 129
    /\ last.at = ROM_START_ADDRESS + 2
    /\ last.registers.register[15] = 77
    /\ registers.register[15] = 129
    /\ program_counter = ROM_START_ADDRESS + 4

\* bit k of a byte
BitOf(v, k) == (v \div Pow2(k)) % 2
\* r is the byte whose bits are those of vy (n = 0), or the OR (n = 1),
\* AND (n = 2) or XOR (n = 3) of the bits of vx and vy
IsLogicResult(r, n, vx, vy) ==
    /\ r \in 0..255
    /\ \A k \in 0..7 :
          BitOf(r, k) =
            CASE n = 0 -> BitOf(vy, k)
              [] n = 1 -> IF BitOf(vx, k) = 1 \/ BitOf(vy, k) = 1 THEN 1 ELSE 0
              [] n = 2 -> IF BitOf(vx, k) = 1 /\ BitOf(vy, k) = 1 THEN 1 ELSE 0
              [] n = 3 -> IF BitOf(vx, k) # BitOf(vy, k) THEN 1 ELSE 0

\* C30: 8XY0 sets Vx to Vy, and 8XY1, 8XY2, 8XY3 set Vx to Vx OR Vy,
\* Vx AND Vy, Vx XOR Vy (old values); no other V register changes, so Vy is
\* unchanged when y # x and VF is unchanged when x # 0xF.
C30_Step ==
    \A n \in 0..3 :
        Executes8(n) =>
            LET x == FieldX(last'.opcode)
                y == FieldY(last'.opcode)
            IN  /\ panic' = ""
                /\ IsLogicResult(registers'.register[x], n,
                                 registers.register[x], registers.register[y])
                /\ \A r \in (0..15) \ {x} :
                      registers'.register[r] = registers.register[r]
C30_Logic == [][C30_Step]_vars

\* 0xF0 OR 0x55 = 0xF5 in V0, with V1 and VF = 77 unchanged
C30_Witness ==
    /\ Executed8(1, 0, 1)
    /\ last.registers.register[0] = 240
    /\ last.registers.register[1] = 85
    /\ last.registers.register[15] = 77
    /\ registers.register[0] = 245
    /\ registers.register[1] = 85
    /\ registers.register[15] = 77

\* C31: a cycle executing any instruction other than ClearScreen or Display
\* leaves all 32x64 framebuffer cells unchanged.
C31_Step ==
    (/\ cycles' = cycles + 1
     /\ last'.opcode # -1
     /\ InstructionNew(last'.opcode).op \notin {"ClearScreen", "Display", "panic"})
    => framebuffer' = framebuffer
C31_FramebufferFrame == [][C31_Step]_vars

\* Write0ThroughX stored V0 over the first font byte while the glyph drawn
\* before it stayed on the framebuffer
C31_Witness ==
    /\ panic = ""
    /\ last.opcode = 15 * 4096 + 85
    /\ memory[0] = 0
    /\ framebuffer[0][0]
    /\ framebuffer[1][3]
    /\ ~framebuffer[1][1]
    /\ framebuffer = last.framebuffer

\* C32: no cycle() changes any of the 16 keyboard entries; a call
\* set_key_state(key, state) with key in 0..15 leaves keyboard[key] = state,
\* every other key as it was, and no other engine state (PC, registers,
\* memory, stack, stack pointer, framebuffer) changed.
C32_Step ==
    /\ (cycles' = cycles + 1) => keyboard' = keyboard
    /\ (key_events' = key_events + 1 /\ key_call'.key \in 0..15) =>
          /\ panic' = ""
          /\ keyboard'[key_call'.key] = key_call'.state
          /\ \A k \in (0..15) \ {key_call'.key} : keyboard'[k] = keyboard[k]
          /\ UNCHANGED <<program_counter, registers, memory, stack, stackpointer,
                         framebuffer>>
C32_KeyboardFrame == [][C32_Step]_vars

\* key 15 was pressed, a cycle ran on that keyboard, and the release of key 15
\* has since left every key unpressed
C32_Witness ==
    /\ panic = ""
    /\ key_events = 2
    /\ key_call = [key |-> 15, state |-> FALSE]
    /\ last.opcode # -1
    /\ last.keyboard[15]
    /\ \A k \in 0..15 : ~keyboard[k]

\* C34: after SetXToRandom x,kk every bit that is 0 in kk is 0 in Vx,
\* whatever byte the generator produced; kk = 0 gives Vx = 0; no register
\* other than Vx changes.
C34_Step ==
    ExecutesGroup(12) =>
        LET x == FieldX(last'.opcode)
            kk == FieldKK(last'.opcode)
        IN  /\ panic' = ""
            /\ registers'.register[x] \in 0..255
            /\ \A k \in 0..7 : BitOf(kk, k) = 0 => BitOf(registers'.register[x], k) = 0
            /\ kk = 0 => registers'.register[x] = 0
            /\ \A r \in (0..15) \ {x} : registers'.register[r] = registers.register[r]
C34_RandomMasked == [][C34_Step]_vars

\* the first byte of the generator, 197, under the mask 170 left V0 = 128
C34_Witness ==
    /\ panic = ""
    /\ last.opcode = 12 * 4096 + 170
    /\ rng = 1
    /\ registers.register[0] = 128

\* C35: a cycle whose opcode fetch would read an address >= 4096 (PC >= 4095)
\* returns an AddressFault value to the host, and the process lives on.
FetchPastEnd == last.at + 1 >= RAM_SIZE
C35_FetchFaultReturned ==
    FetchPastEnd =>
        /\ panic = ""
        /\ last.returned = "AddressFault"

\* C37: for every opcode, decode extracts x = bits 8-11, y = bits 4-7,
\* n = bits 0-3, kk = bits 0-7 and nnn = bits 0-11 into the fields its
\* instruction carries, so every register index is in 0..15 and nnn is in
\* 0..0xFFF; and decode returns an instruction for every opcode whose top
\* nibble is not 8, E or F.
DecodedFields(word) ==
    LET i == InstructionNew(word)
        top == word \div 4096
    IN  /\ top \notin {8, 14, 15} => i.op # "panic"
        /\ i.op # "panic" =>
              /\ top \in {3, 4, 5, 6, 7, 8, 9, 12, 13, 14, 15} => i.x = FieldX(word)
              /\ (top \in {5, 9, 13} \/ (top = 8 /\ word % 16 \notin {6, 14})) =>
                    i.y = FieldY(word)
              /\ top = 13 => i.n = word % 16
              /\ top \in {3, 4, 6, 7, 12} => i.kk = FieldKK(word)
              /\ top \in {1, 2, 10, 11} => i.nnn = FieldNNN(word)
              /\ i.x \in 0..15
              /\ i.y \in 0..15
              /\ i.n \in 0..15
              /\ i.kk \in 0..255
              /\ i.nnn \in 0..4095
C37_DecodeFields == last.opcode # -1 => DecodedFields(last.opcode)

\* 0xD96F was decoded to Display x = 9, y = 6, n = 15 and drew the font bytes
C37_Witness ==
    /\ panic = ""
    /\ last.opcode = 13 * 4096 + 9 * 256 + 6 * 16 + 15
    /\ InstructionNew(last.opcode) =
          [op |-> "Display", x |-> 9, y |-> 6, n |-> 15, kk |-> 0, nnn |-> 0]
    /\ framebuffer[0][0]

\* C38: every key that passes the assertion of set_key_state is a valid
\* keyboard index, so a call that passes the assertion never indexes the
\* 16-entry keyboard out of range.
C38_AssertedKeyInRange == panic # "keyboard index out of bounds"

\* C36: in every state of the running engine the stack pointer is in 0..16
\* and equals the number of calls not yet returned from, whose return
\* addresses are the stack entries below it; a ReturnFromSubroutine sets PC to
\* the return address of the latest such call, so k <= 16 nested calls
\* followed by k returns restore the return addresses in reverse order and
\* leave the stack pointer where it started.
C36_Depth ==
    panic = "" =>
        /\ stackpointer \in 0..STACK_SIZE
        /\ stackpointer = Len(pending)
        /\ \A d \in 1..Len(pending) : stack[d - 1] = pending[d]
C36_Step ==
    (/\ CycleReturned
     /\ last'.opcode # -1
     /\ InstructionNew(last'.opcode).op = "ReturnFromSubroutine") =>
        /\ Len(pending) > 0
        /\ program_counter' = pending[Len(pending)]
        /\ stackpointer' = stackpointer - 1
C36_StackDiscipline == []C36_Depth /\ [][C36_Step]_vars

\* sixteen nested calls and sixteen returns later the engine is back behind
\* the first call with an empty stack
C36_Witness ==
    /\ panic = ""
    /\ Len(rom) = 4 * STACK_SIZE + 2
    /\ cycles = 2 * STACK_SIZE
    /\ last.opcode = 238
    /\ last.sp = 1
    /\ stackpointer = 0
    /\ pending = <<>>
    /\ program_counter = ROM_START_ADDRESS + 2
    /\ stack[STACK_SIZE - 1] = ROM_START_ADDRESS + 4 * (STACK_SIZE - 1) + 2

\* update() has handled one message in this step, of one of these types
HandledType(types) == message'.n = message.n + 1 /\ message'.type \in types

\* C39: in the GUI application, after any sequence of messages, running
\* implies initialized, FileSelectButtonClicked leaves running = false, and
\* initialized becomes true only in the step that handles a
\* FileSelected(Some) message and has loaded its ROM.
C39_Step ==
    (app'.initialized /\ ~app.initialized) =>
        /\ HandledType({"FileSelected(Some)"})
        /\ panic' = ""
        /\ \E file \in Files : rom' = file.bytes /\ memory' = new(file.bytes).memory
C39_RunningImpliesInitialized ==
    /\ [](/\ app.running => app.initialized
          /\ message.type = "FileSelectButtonClicked" => ~app.running)
    /\ [][C39_Step]_vars

\* ResumeRequested was handled before any ROM was loaded and the application
\* is still not running
C39_Witness ==
    /\ panic = ""
    /\ message = [n |-> 2, type |-> "ResumeRequested"]
    /\ ~app.initialized
    /\ ~app.running
    /\ cycles = 0

\* C40: while running is false a Tick makes no cpu.cycle() call and a key
\* event does not change the CPU keyboard; while running is true a Tick makes
\* exactly CYCLES_PER_FRAME cycle() calls; key writes reach the CPU in
\* messages of their own, never within a Tick.
C40_Step ==
    /\ (HandledType({"Tick"}) /\ ~app.running) =>
          /\ cycles' = cycles
          /\ UNCHANGED <<program_counter, registers, memory, stack, stackpointer,
                         keyboard, framebuffer, rng, panic>>
    /\ (HandledType({"KeyPressed", "KeyReleased"}) /\ ~app.running) =>
          /\ keyboard' = keyboard
          /\ key_events' = key_events
    /\ (HandledType({"Tick"}) /\ app.running) =>
          /\ cycles' = cycles + CYCLES_PER_FRAME
          /\ keyboard' = keyboard
          /\ key_events' = key_events
    /\ key_events' # key_events =>
          /\ HandledType({"KeyPressed", "KeyReleased"})
          /\ cycles' = cycles
C40_TickBurst == [][C40_Step]_vars

=============================================================================
